---------------------------- MODULE Spec2Model ----------------------------
(***************************************************************************)
(* A model of pyTBA: the team-key normaliser and its decorator             *)
(* (pytba/util.py), the Event model and its queries (pytba/models.py), the *)
(* OPR computation (pytba/stats.py) and the API client (pytba/api.py).     *)
(*                                                                         *)
(* Python strings are sequences of one-character strings, so that lower(), *)
(* isdigit(), startswith(), replace() and int() are modelled by what they  *)
(* do to the characters.  Python values of different types are records     *)
(* tagged with their type.                                                 *)
(***************************************************************************)
EXTENDS Integers, Sequences, FiniteSets, TLC

VARIABLES
    fmt_team,       \* team_format: the `team` argument
    fmt_format,     \* team_format: the `format` argument
    fmt_result,     \* team_format: what the call did (None before the call)
    wrap_layers,    \* team_wrap: the decorators stacked on func, outermost first
    wrap_args,      \* team_wrap: positional arguments as they travel inwards
    wrap_kwargs,    \* team_wrap: keyword arguments as they travel inwards
    wrap_orig,      \* team_wrap: the caller's arguments
    wrap_pc,        \* team_wrap: the layer whose `wrapped` runs next
    wrap_result,    \* team_wrap: None, "executed", or the exception raised
    payload,        \* the arguments of Event(...): what the API returned
    event,          \* the Event object (None before construction)
    opr_kwargs,     \* stats.opr: the caller's keyword arguments, in order
    opr_result,     \* stats.opr: what the call did (None before the call)
    query,          \* the latest call on the Event: its name and arguments
    query_result,   \* what that call did (None before the first call)
    query_count,    \* the number of calls made on the Event
    app_id,         \* per TBAClient: the value of app_id['X-TBA-App-Id']
    http_log,       \* the HTTP requests issued, in order
    tba_result      \* the latest set_api_key / tba_get: what the call did

fvars == <<fmt_team, fmt_format, fmt_result>>
wvars == <<wrap_layers, wrap_args, wrap_kwargs, wrap_orig, wrap_pc, wrap_result>>
evars == <<payload, event>>
ovars == <<opr_kwargs, opr_result>>
qvars == <<query, query_result, query_count>>
avars == <<app_id, http_log, tba_result>>
vars == <<fvars, wvars, evars, ovars, qvars, avars>>

None == [type |-> "NoneType"]

(***************************************************************************)
(* Python str and int primitives used by util.team_format.                 *)
(***************************************************************************)
Digits == <<"0", "1", "2", "3", "4", "5", "6", "7", "8", "9">>

DigitChars == {Digits[i] : i \in DOMAIN Digits}

DigitVal(ch) == (CHOOSE i \in DOMAIN Digits : Digits[i] = ch) - 1

\* str.lower() on one character
LowerChar(ch) ==
    CASE ch = "F" -> "f"
      [] ch = "R" -> "r"
      [] ch = "C" -> "c"
      [] ch = "A" -> "a"
      [] OTHER -> ch

\* str.lower()
StrLower(s) == [i \in DOMAIN s |-> LowerChar(s[i])]

\* str.isdigit(): non-empty and every character a digit
StrIsDigit(s) == Len(s) > 0 /\ \A i \in DOMAIN s : s[i] \in DigitChars

\* str.startswith(prefix)
StrStartsWith(s, prefix) ==
    Len(s) >= Len(prefix) /\ SubSeq(s, 1, Len(prefix)) = prefix

\* str.replace(old, new): every non-overlapping occurrence, leftmost first
RECURSIVE StrReplace(_, _, _)
StrReplace(s, old, new) ==
    IF Len(s) < Len(old) \/ Len(old) = 0 THEN s
    ELSE IF SubSeq(s, 1, Len(old)) = old
         THEN new \o StrReplace(SubSeq(s, Len(old) + 1, Len(s)), old, new)
         ELSE <<s[1]>> \o StrReplace(Tail(s), old, new)

\* the value of a non-empty all-digit string
RECURSIVE DigitsValue(_)
DigitsValue(s) ==
    IF Len(s) = 0 THEN 0
    ELSE 10 * DigitsValue(SubSeq(s, 1, Len(s) - 1)) + DigitVal(s[Len(s)])

\* str.strip() of blanks, as int() applies it to its argument
RECURSIVE StrStrip(_)
StrStrip(s) ==
    IF Len(s) > 0 /\ s[1] = " " THEN StrStrip(Tail(s))
    ELSE IF Len(s) > 0 /\ s[Len(s)] = " " THEN StrStrip(SubSeq(s, 1, Len(s) - 1))
    ELSE s

\* int(str): blanks around, an optional sign, then digits; ValueError otherwise
IntParse(s) ==
    LET t == StrStrip(s)
        signed == Len(t) > 0 /\ t[1] \in {"-", "+"}
        body == IF signed THEN Tail(t) ELSE t
    IN  IF StrIsDigit(body)
        THEN [ok |-> TRUE,
              val |-> IF signed /\ t[1] = "-" THEN 0 - DigitsValue(body)
                      ELSE DigitsValue(body)]
        ELSE [ok |-> FALSE, val |-> 0]

\* str(int) of a non-negative int
RECURSIVE NatToStr(_)
NatToStr(n) ==
    IF n < 10 THEN <<Digits[n + 1]>>
    ELSE NatToStr(n \div 10) \o <<Digits[(n % 10) + 1]>>

\* str(int)
IntToStr(n) == IF n < 0 THEN <<"-">> \o NatToStr(0 - n) ELSE NatToStr(n)

\* what a call does: it returns a value or raises an exception
Return(v) == [kind |-> "return", val |-> v]

Raise(exc) == [kind |-> "raise", exc |-> exc]

PyInt(n) == [type |-> "int", num |-> n]

PyStr(s) == [type |-> "str", chars |-> s]

PyFloat == [type |-> "float"]

FRC == <<"f", "r", "c">>

\* the two format strings the repository uses: "frc{}" and "{}"
FormatFrc == FRC

FormatBare == <<>>

\* format.format(n) for a format string that is a prefix followed by "{}"
StrFormat(format, n) == format \o IntToStr(n)

(***************************************************************************)
(* util.team_format                                                        *)
(***************************************************************************)
\* team_format without team.lower(): an upper-case prefix is rejected
team_format_NoLower(team, format) ==
    IF team.type = "int" THEN Return(StrFormat(format, team.num))
    ELSE IF team.type = "str" THEN
        LET low == team.chars IN
        IF StrIsDigit(low) THEN Return(StrFormat(format, DigitsValue(low)))
        ELSE IF StrStartsWith(low, FRC) THEN
            LET parsed == IntParse(StrReplace(low, FRC, <<>>)) IN
            IF parsed.ok THEN Return(StrFormat(format, parsed.val))
            ELSE Raise("ValueError")
        ELSE Raise("ValueError")
    ELSE Raise("ValueError")

team_format(team, format) ==
    IF team.type = "int" THEN Return(StrFormat(format, team.num))
    ELSE IF team.type = "str" THEN
        LET low == StrLower(team.chars) IN
        IF StrIsDigit(low) THEN Return(StrFormat(format, DigitsValue(low)))
        ELSE IF StrStartsWith(low, FRC) THEN
            LET parsed == IntParse(StrReplace(low, FRC, <<>>)) IN
            IF parsed.ok THEN Return(StrFormat(format, parsed.val))
            ELSE Raise("ValueError")
        ELSE Raise("ValueError")
    ELSE Raise("ValueError")

(***************************************************************************)
(* Inputs of the normaliser: integers, strings put together from pieces    *)
(* (the prefix in several cases, digits, other characters), and values     *)
(* that are neither.                                                       *)
(***************************************************************************)
MaxPieces == 4

MaxTeamNumber == 12

Pieces ==
    { <<"f", "r", "c">>, <<"F", "R", "C">>, <<"F", "r", "c">>,
      <<"0">>, <<"1">>, <<"2">>, <<"a">>, <<"-">>, <<" ">> }

RECURSIVE Flatten(_)
Flatten(ss) == IF Len(ss) = 0 THEN <<>> ELSE Head(ss) \o Flatten(Tail(ss))

StrInputs ==
    { Flatten(ps) : ps \in UNION { [1..n -> Pieces] : n \in 0..MaxPieces } }

TeamInputs ==
    { PyInt(n) : n \in (0 - 2)..MaxTeamNumber }
    \cup { PyStr(s) : s \in StrInputs }
    \cup { None, PyFloat }

InitFormatVars ==
    /\ fmt_team \in TeamInputs
    /\ fmt_format \in {FormatFrc, FormatBare}
    /\ fmt_result = None

IdleFormatVars ==
    /\ fmt_team = None
    /\ fmt_format = FormatFrc
    /\ fmt_result = None

\* a call team_format(fmt_team, fmt_format)
TeamFormat ==
    /\ fmt_result = None
    /\ fmt_result' = team_format(fmt_team, fmt_format)
    /\ UNCHANGED <<fmt_team, fmt_format, wvars, evars, ovars, qvars, avars>>

IdleOprVars ==
    /\ opr_kwargs = None
    /\ opr_result = None

IdleEventVars ==
    /\ payload = None
    /\ event = None

IdleQueryVars ==
    /\ query = None
    /\ query_result = None
    /\ query_count = 0

IdleClientVars ==
    /\ app_id = <<>>
    /\ http_log = <<>>
    /\ tba_result = None

IdleWrapVars ==
    /\ wrap_layers = <<>>
    /\ wrap_args = <<>>
    /\ wrap_kwargs = <<>>
    /\ wrap_orig = None
    /\ wrap_pc = 0
    /\ wrap_result = None

(***************************************************************************)
(* Claims about util.team_format (checked under SpecFormat).               *)
(***************************************************************************)
\* the canonical decimal digits of a digit string: leading zeros removed
RECURSIVE StripLeadingZeros(_)
StripLeadingZeros(s) ==
    IF Len(s) > 1 /\ s[1] = "0" THEN StripLeadingZeros(Tail(s)) ELSE s

\* d is the decimal form of the non-negative integer n
IsDecimalOf(d, n) ==
    /\ StrIsDigit(d)
    /\ StripLeadingZeros(d) = d
    /\ DigitsValue(d) = n

\* the identifier shapes the contract accepts as strings
IsDigitString(t) == t.type = "str" /\ StrIsDigit(t.chars)

IsPrefixedString(t) ==
    /\ t.type = "str"
    /\ Len(t.chars) > 3
    /\ StrLower(SubSeq(t.chars, 1, 3)) = FRC
    /\ StrIsDigit(SubSeq(t.chars, 4, Len(t.chars)))

WellFormedTeam(t) == t.type = "int" \/ IsDigitString(t) \/ IsPrefixedString(t)

\* C7: team_format gives "frc" + the decimal form of n for the integer n >= 0,
\* for a digit-only string denoting n, and for "frc" (in any letter case)
\* followed by the digits of n.
C7_CanonicalKey ==
    (fmt_result # None /\ fmt_format = FormatFrc) =>
        /\ (fmt_team.type = "int" /\ fmt_team.num >= 0) =>
              /\ fmt_result.kind = "return"
              /\ StrStartsWith(fmt_result.val, FRC)
              /\ IsDecimalOf(SubSeq(fmt_result.val, 4, Len(fmt_result.val)),
                             fmt_team.num)
        /\ IsDigitString(fmt_team) =>
              fmt_result = Return(FRC \o StripLeadingZeros(fmt_team.chars))
        /\ IsPrefixedString(fmt_team) =>
              fmt_result = Return(FRC \o StripLeadingZeros(
                                SubSeq(fmt_team.chars, 4, Len(fmt_team.chars))))

\* C7 witness: the call was given "FRC12" and has returned
C7_Witness ==
    /\ fmt_team = PyStr(<<"F", "R", "C", "1", "2">>)
    /\ fmt_format = FormatFrc
    /\ fmt_result = Return(<<"f", "r", "c", "1", "2">>)

\* C8: team_format raises ValueError for every input that is not an integer,
\* not a digit-only string and not "frc" (any case) followed by digits only;
\* it never returns a key for such an input.
C8_MalformedRaises ==
    (fmt_result # None /\ ~WellFormedTeam(fmt_team)) =>
        fmt_result = Raise("ValueError")

InitFormat ==
    /\ InitFormatVars
    /\ IdleWrapVars
    /\ IdleEventVars
    /\ IdleOprVars
    /\ IdleQueryVars
    /\ IdleClientVars

NextFormat == TeamFormat

SpecFormat == InitFormat /\ [][NextFormat]_vars

(***************************************************************************)
(* util.team_wrap.  A decorator is described by the keyword arguments      *)
(* given to team_wrap; applying it puts a layer around func.  A call       *)
(* enters the outermost layer, each layer's `wrapped` formats the          *)
(* arguments it lists and calls the next layer, the innermost calls func.  *)
(***************************************************************************)
\* `pos` or `kword` given as a list or tuple, or as a single value
AsList(v) == IF v.islist THEN v.items ELSE <<v.item>>

PyList(items) == [islist |-> TRUE, items |-> items]

PyScalar(item) == [islist |-> FALSE, item |-> item]

\* team_wrap(**kwargs): the layer it builds, or the ValueError it raises
team_wrap(kwargs) ==
    LET format == IF "format" \in DOMAIN kwargs THEN kwargs.format ELSE FormatFrc
    IN  IF "pos" \in DOMAIN kwargs /\ "kword" \in DOMAIN kwargs
        THEN Raise("ValueError")
        ELSE IF "pos" \in DOMAIN kwargs
        THEN Return([mode |-> "pos", names |-> AsList(kwargs.pos), format |-> format])
        ELSE IF "kword" \in DOMAIN kwargs
        THEN Return([mode |-> "kword", names |-> AsList(kwargs.kword), format |-> format])
        ELSE Return([mode |-> "default", names |-> <<0>>, format |-> format])

\* the loop of the positional `wrapped`: args is the caller's tuple, newargs
\* the list being rewritten; pos holds 0-based indices
RECURSIVE FormatPositional(_, _, _, _)
FormatPositional(pos, args, newargs, format) ==
    IF Len(pos) = 0 THEN Return(newargs)
    ELSE LET i == Head(pos) IN
         IF i >= Len(args) THEN Raise("IndexError")
         ELSE LET team == team_format(args[i + 1], format) IN
              IF team.kind = "raise" THEN team
              ELSE FormatPositional(Tail(pos), args,
                                    [newargs EXCEPT ![i + 1] = PyStr(team.val)],
                                    format)

\* the loop of the keyword `wrapped`: absent keywords are skipped
RECURSIVE FormatKeywords(_, _, _)
FormatKeywords(kword, kwargs, format) ==
    IF Len(kword) = 0 THEN Return(kwargs)
    ELSE LET kw == Head(kword) IN
         IF kw \notin DOMAIN kwargs THEN FormatKeywords(Tail(kword), kwargs, format)
         ELSE LET team == team_format(kwargs[kw], format) IN
              IF team.kind = "raise" THEN team
              ELSE FormatKeywords(Tail(kword),
                                  [kwargs EXCEPT ![kw] = PyStr(team.val)], format)

MaxLayers == 2

MaxArgs == 2

\* the decorators of the repository and of its tests
DecoratorKwargs ==
    { [pos |-> PyList(<<0, 1>>)],
      [kword |-> PyList(<<"three", "four">>)],
      [pos |-> PyScalar(1)],
      [pos |-> PyScalar(1), format |-> FormatBare],
      [kword |-> PyScalar("three")],
      [pos |-> PyScalar(0), kword |-> PyScalar("three")],
      << >> }

\* argument values of a call: team identifiers of every shape, and other values
ArgValues ==
    { PyInt(26), PyStr(<<"F", "R", "C", "1">>), PyStr(<<"4", "4", "4">>),
      PyStr(<<"a", "n", " ", "i", "n", "v", "a", "l", "i", "d">>),
      PyStr(<<"f", "r", "c", "1", "f", "r", "c", "2">>), None }

KeywordValues ==
    { PyInt(254), PyStr(<<"2", "0", "3">>), PyStr(<<"f", "r", "c", "a">>) }

KeywordNames == {"three", "four"}

InitWrapVars ==
    /\ wrap_layers = <<>>
    /\ wrap_args = <<>>
    /\ wrap_kwargs = <<>>
    /\ wrap_orig = None
    /\ wrap_pc = 0
    /\ wrap_result = None

\* @team_wrap(...) applied to the function decorated so far
Decorate ==
    /\ wrap_pc = 0
    /\ wrap_result = None
    /\ Len(wrap_layers) < MaxLayers
    /\ \E kwargs \in DecoratorKwargs :
          LET made == team_wrap(kwargs) IN
          IF made.kind = "raise"
          THEN /\ wrap_result' = made
               /\ UNCHANGED wrap_layers
          ELSE /\ wrap_layers' = <<made.val>> \o wrap_layers
               /\ UNCHANGED wrap_result
    /\ UNCHANGED <<wrap_args, wrap_kwargs, wrap_orig, wrap_pc, fvars, evars, ovars, qvars, avars>>

\* the decorated function is called
Call ==
    /\ wrap_pc = 0
    /\ wrap_result = None
    /\ Len(wrap_layers) > 0
    /\ \E n \in 0..MaxArgs : \E args \in [1..n -> ArgValues] :
       \E names \in SUBSET KeywordNames : \E kwargs \in [names -> KeywordValues] :
          /\ wrap_args' = args
          /\ wrap_kwargs' = kwargs
          /\ wrap_orig' = [args |-> args, kwargs |-> kwargs]
    /\ wrap_pc' = 1
    /\ UNCHANGED <<wrap_layers, wrap_result, fvars, evars, ovars, qvars, avars>>

InCall == wrap_pc \in 1..Len(wrap_layers) /\ wrap_result = None

\* wrapped(*args, **kwargs) of a decorator given `pos`
WrappedPos ==
    /\ InCall
    /\ wrap_layers[wrap_pc].mode = "pos"
    /\ LET layer == wrap_layers[wrap_pc]
           done == FormatPositional(layer.names, wrap_args, wrap_args, layer.format)
       IN  IF done.kind = "raise"
           THEN /\ wrap_result' = done
                /\ UNCHANGED <<wrap_args, wrap_pc>>
           ELSE /\ wrap_args' = done.val
                /\ wrap_pc' = wrap_pc + 1
                /\ UNCHANGED wrap_result
    /\ UNCHANGED <<wrap_layers, wrap_kwargs, wrap_orig, fvars, evars, ovars, qvars, avars>>

\* wrapped(*args, **kwargs) of a decorator given `kword`
WrappedKword ==
    /\ InCall
    /\ wrap_layers[wrap_pc].mode = "kword"
    /\ LET layer == wrap_layers[wrap_pc]
           done == FormatKeywords(layer.names, wrap_kwargs, layer.format)
       IN  IF done.kind = "raise"
           THEN /\ wrap_result' = done
                /\ UNCHANGED <<wrap_kwargs, wrap_pc>>
           ELSE /\ wrap_kwargs' = done.val
                /\ wrap_pc' = wrap_pc + 1
                /\ UNCHANGED wrap_result
    /\ UNCHANGED <<wrap_layers, wrap_args, wrap_orig, fvars, evars, ovars, qvars, avars>>

\* wrapped(*args) of a decorator given neither: it takes no keyword argument
WrappedDefault ==
    /\ InCall
    /\ wrap_layers[wrap_pc].mode = "default"
    /\ LET layer == wrap_layers[wrap_pc]
           done == IF DOMAIN wrap_kwargs # {} THEN Raise("TypeError")
                   ELSE FormatPositional(layer.names, wrap_args, wrap_args,
                                         layer.format)
       IN  IF done.kind = "raise"
           THEN /\ wrap_result' = done
                /\ UNCHANGED <<wrap_args, wrap_pc>>
           ELSE /\ wrap_args' = done.val
                /\ wrap_pc' = wrap_pc + 1
                /\ UNCHANGED wrap_result
    /\ UNCHANGED <<wrap_layers, wrap_kwargs, wrap_orig, fvars, evars, ovars, qvars, avars>>

\* the innermost layer calls func(*newargs, **kwargs)
FuncExecuted ==
    /\ wrap_pc = Len(wrap_layers) + 1
    /\ wrap_result = None
    /\ wrap_result' = [kind |-> "executed", args |-> wrap_args, kwargs |-> wrap_kwargs]
    /\ UNCHANGED <<wrap_layers, wrap_args, wrap_kwargs, wrap_orig, wrap_pc, fvars, evars, ovars, qvars, avars>>

(***************************************************************************)
(* Claims about util.team_wrap (checked under SpecWrap).                   *)
(***************************************************************************)
Range(f) == { f[x] : x \in DOMAIN f }

\* the digits of the number a well-formed identifier denotes
KeyDigits(t) ==
    IF t.type = "int" THEN NatToStr(t.num)
    ELSE IF StrIsDigit(t.chars) THEN StripLeadingZeros(t.chars)
    ELSE StripLeadingZeros(SubSeq(t.chars, 4, Len(t.chars)))

ListsPosition(layer, i) == layer.mode \in {"pos", "default"} /\ i \in Range(layer.names)

ListsKeyword(layer, kw) == layer.mode = "kword" /\ kw \in Range(layer.names)

\* a well-formed identifier after the layers that list it, outermost first
RECURSIVE CanonicalThrough(_, _, _)
CanonicalThrough(layers, lists(_), v) ==
    IF Len(layers) = 0 THEN v
    ELSE CanonicalThrough(Tail(layers), lists,
             IF lists(Head(layers)) THEN PyStr(Head(layers).format \o KeyDigits(v))
             ELSE v)

PositionListed(i) == \E l \in DOMAIN wrap_layers : ListsPosition(wrap_layers[l], i)

KeywordListed(kw) == \E l \in DOMAIN wrap_layers : ListsKeyword(wrap_layers[l], kw)

\* a call that supplies every listed position and suits every layer's signature
CallSuitsLayers ==
    /\ wrap_orig # None
    /\ \A l \in DOMAIN wrap_layers :
          /\ wrap_layers[l].mode \in {"pos", "default"} =>
                \A i \in Range(wrap_layers[l].names) : i < Len(wrap_orig.args)
          /\ wrap_layers[l].mode = "default" => DOMAIN wrap_orig.kwargs = {}

SomeListedInvalid ==
    \/ \E i \in 0..(Len(wrap_orig.args) - 1) :
          PositionListed(i) /\ ~WellFormedTeam(wrap_orig.args[i + 1])
    \/ \E kw \in DOMAIN wrap_orig.kwargs :
          KeywordListed(kw) /\ ~WellFormedTeam(wrap_orig.kwargs[kw])

ReceivedCanonical ==
    /\ DOMAIN wrap_result.args = DOMAIN wrap_orig.args
    /\ DOMAIN wrap_result.kwargs = DOMAIN wrap_orig.kwargs
    /\ \A i \in 0..(Len(wrap_orig.args) - 1) :
          LET lists(layer) == ListsPosition(layer, i) IN
          wrap_result.args[i + 1] =
              CanonicalThrough(wrap_layers, lists, wrap_orig.args[i + 1])
    /\ \A kw \in DOMAIN wrap_orig.kwargs :
          LET lists(layer) == ListsKeyword(layer, kw) IN
          wrap_result.kwargs[kw] =
              CanonicalThrough(wrap_layers, lists, wrap_orig.kwargs[kw])

\* C9: a function decorated with team_wrap is executed only after every listed
\* positional argument and every listed keyword argument that is present has
\* been replaced by its canonical key, all other arguments unchanged; if any
\* listed identifier is invalid, ValueError is raised and the function is not
\* executed at all.
C9_WrapNormalizesOrRaises ==
    (CallSuitsLayers /\ wrap_result # None) =>
        IF SomeListedInvalid
        THEN wrap_result = Raise("ValueError")
        ELSE wrap_result.kind = "executed" /\ ReceivedCanonical

\* C9, the part the code keeps: func runs only once every layer's `wrapped` has
\* run, and then every listed argument it receives is what team_format returned
\* for it, the others being the caller's
C9_FormattedBeforeExecution ==
    (wrap_result # None /\ wrap_result.kind = "executed") =>
        /\ wrap_pc = Len(wrap_layers) + 1
        /\ \A i \in 0..(Len(wrap_orig.args) - 1) :
              IF PositionListed(i)
              THEN /\ wrap_result.args[i + 1].type = "str"
                   /\ team_format(wrap_result.args[i + 1], FormatBare).kind = "return"
                   /\ team_format(wrap_orig.args[i + 1], FormatBare)
                        = team_format(wrap_result.args[i + 1], FormatBare)
              ELSE wrap_result.args[i + 1] = wrap_orig.args[i + 1]
        /\ \A kw \in DOMAIN wrap_orig.kwargs :
              IF KeywordListed(kw)
              THEN /\ wrap_result.kwargs[kw].type = "str"
                   /\ team_format(wrap_orig.kwargs[kw], FormatBare)
                        = team_format(wrap_result.kwargs[kw], FormatBare)
              ELSE wrap_result.kwargs[kw] = wrap_orig.kwargs[kw]

InitWrap ==
    /\ InitWrapVars
    /\ IdleFormatVars
    /\ IdleEventVars
    /\ IdleOprVars
    /\ IdleQueryVars
    /\ IdleClientVars

NextWrap ==
    \/ Decorate
    \/ Call
    \/ WrappedPos
    \/ WrappedKword
    \/ WrappedDefault
    \/ FuncExecuted

SpecWrap == InitWrap /\ [][NextWrap]_vars

(***************************************************************************)
(* models.Event.  A team model is a record with its key; a match model     *)
(* holds its key, comp_level, set_number, match_number, the two alliances  *)
(* (team keys and score) and the score breakdown of each alliance.  Keys   *)
(* of events and matches are strings written as sequences of their parts.  *)
(***************************************************************************)
\* the key of the team model of team number n, e.g. "frc3"
TeamKey(n) == FRC \o NatToStr(n)

TeamModel(n) == [key |-> TeamKey(n), team_number |-> n]

Alliance(teams, score) ==
    [teams |-> [i \in DOMAIN teams |-> TeamKey(teams[i])], score |-> score]

Breakdown(teleop, tower) == [teleopPoints |-> teleop, towerEndStrength |-> tower]

\* s in list, for a Python list of strings
InList(x, list) == \E i \in DOMAIN list : list[i] = x

\* models.match_sort_key
match_sort_key(match) ==
    LET levels == [qm |-> 0, ef |-> 1000, qf |-> 2000, sf |-> 3000, f |-> 4000]
    IN  levels[match.comp_level]
        + (IF match.comp_level # "qm" THEN 100 * match.set_number ELSE 0)
        + match.match_number

\* sorted(matches, key=match_sort_key): a stable sort
RECURSIVE InsertByKey(_, _)
InsertByKey(sorted, match) ==
    IF Len(sorted) = 0 THEN <<match>>
    ELSE IF match_sort_key(Head(sorted)) <= match_sort_key(match)
         THEN <<Head(sorted)>> \o InsertByKey(Tail(sorted), match)
         ELSE <<match>> \o sorted

RECURSIVE SortedFrom(_, _)
SortedFrom(sorted, matches) ==
    IF Len(matches) = 0 THEN sorted
    ELSE SortedFrom(InsertByKey(sorted, Head(matches)), Tail(matches))

SortedByKey(matches) == SortedFrom(<<>>, matches)

\* list(filter(keep, list))
Filter(list, keep(_)) == SelectSeq(list, keep)

\* the team plays in the match: its key is in the red or the blue team list
PlaysIn(team, match) ==
    \/ InList(team.key, match.alliances.red.teams)
    \/ InList(team.key, match.alliances.blue.teams)

\* the filter keeping the teams of the red alliances only
PlayedTeams_RedOnly(teams, matches) ==
    LET played(team) ==
            \E i \in DOMAIN matches : InList(team.key, matches[i].alliances.red.teams)
    IN  Filter(teams, played)

\* the filter of Event.__init__: teams that appear in at least one match
PlayedTeams(teams, matches) ==
    LET played(team) == Len(LET plays(match) == PlaysIn(team, match)
                            IN  Filter(matches, plays)) > 0
    IN  Filter(teams, played)

\* the team list Event.__init__ stores
EventTeams(teams, matches, filtered) ==
    IF filtered THEN PlayedTeams(teams, matches) ELSE teams

\* an attribute __init__ never assigned
Unset == [type |-> "unset"]

\* Event.__init__(info, teams, matches, awards, rankings, filtered, key);
\* self.key is assigned only when no key is passed and info is given
EventInit(p) ==
    IF p.key = None /\ p.info # None /\ "key" \notin DOMAIN p.info
    THEN Raise("KeyError")
    ELSE Return(
        [key |-> IF p.key = None /\ p.info # None THEN p.info.key ELSE Unset,
         info |-> p.info,
         teams |-> EventTeams(p.teams, p.matches, p.filtered),
         matches |-> SortedByKey(p.matches),
         awards |-> p.awards,
         rankings |-> p.rankings])

\* the constructor runs on the payload
EventConstruct ==
    /\ payload # None
    /\ event = None
    /\ event' = EventInit(payload)
    /\ UNCHANGED <<payload, fvars, wvars, ovars, qvars, avars>>

(***************************************************************************)
(* Payloads of SpecEvent: team lists in every order, matches picked from   *)
(* a pool of qualification and playoff matches, in any input order.        *)
(***************************************************************************)
MaxMatches == 3

EventKey == <<"2016", "test">>

MatchKey(level, set, number) ==
    EventKey \o <<"_", level>>
    \o (IF level = "qm" THEN <<>> ELSE NatToStr(set) \o <<"m">>) \o NatToStr(number)

MatchModel(level, set, number, red, blue) ==
    [key |-> MatchKey(level, set, number),
     comp_level |-> level, set_number |-> set, match_number |-> number,
     alliances |-> [red |-> red, blue |-> blue],
     score_breakdown |-> [red |-> Breakdown(red.score, 8), blue |-> Breakdown(blue.score, 8)]]

MatchPool ==
    { MatchModel("qm", 1, 1, Alliance(<<1, 2>>, 10), Alliance(<<3>>, 20)),
      MatchModel("qm", 1, 2, Alliance(<<3>>, 7), Alliance(<<1>>, 5)),
      MatchModel("qf", 2, 1, Alliance(<<2>>, 30), Alliance(<<9>>, 31)),
      MatchModel("sf", 1, 2, Alliance(<<9>>, 40), Alliance(<<3>>, 41)),
      MatchModel("f", 1, 1, Alliance(<<1>>, 50), Alliance(<<9>>, 51)) }

\* sequences without repetition over a set, up to a length
InjectiveSeqs(S, n) ==
    { q \in UNION { [1..k -> S] : k \in 0..n } :
        \A i, j \in DOMAIN q : i # j => q[i] # q[j] }

EventTeamNumbers == {1, 2, 3}

InfoBlocks == { None, [key |-> EventKey, name |-> "Test"], [name |-> "Test"] }

EventPayloads ==
    { [info |-> info, teams |-> [i \in DOMAIN ts |-> TeamModel(ts[i])],
       matches |-> ms, awards |-> <<>>, rankings |-> <<>>,
       filtered |-> filtered, key |-> key] :
        info \in InfoBlocks,
        ts \in InjectiveSeqs(EventTeamNumbers, Cardinality(EventTeamNumbers)),
        ms \in InjectiveSeqs(MatchPool, MaxMatches),
        filtered \in BOOLEAN,
        key \in {None, EventKey} }

(***************************************************************************)
(* Claims about Event construction (checked under SpecEvent).              *)
(***************************************************************************)
Constructed == event # None /\ event.kind = "return"

\* the team's key is listed by the red or blue alliance of some input match
AppearsInSomeMatch(team) ==
    \E i \in DOMAIN payload.matches :
        team.key \in Range(payload.matches[i].alliances.red.teams)
                     \cup Range(payload.matches[i].alliances.blue.teams)

PositionIn(list, x) == CHOOSE i \in DOMAIN list : list[i] = x

KeyAvailable ==
    \/ payload.key # None
    \/ payload.info # None /\ "key" \in DOMAIN payload.info

ExpectedKey == IF payload.key # None THEN payload.key ELSE payload.info.key

\* C11: after construction the event has a key: the explicit key override when
\* one is given, otherwise the key embedded in the info block; construction
\* fails only when neither is available.
C11_EventHasKey ==
    /\ Constructed => KeyAvailable /\ event.val.key = ExpectedKey
    /\ (event # None /\ event.kind = "raise") => ~KeyAvailable

InitEvent ==
    /\ payload \in EventPayloads
    /\ event = None
    /\ IdleFormatVars
    /\ IdleWrapVars
    /\ IdleOprVars
    /\ IdleQueryVars
    /\ IdleClientVars

NextEvent == EventConstruct

SpecEvent == InitEvent /\ [][NextEvent]_vars

(***************************************************************************)
(* Numbers of the OPR computation.  numpy solves in floating point; the    *)
(* model solves exactly, in fractions [num, den] with den > 0 in lowest    *)
(* terms.  den = 0 stands for the meaningless values a floating-point      *)
(* solve of a singular system returns when it meets no exactly zero pivot. *)
(***************************************************************************)
Abs(n) == IF n < 0 THEN 0 - n ELSE n

RECURSIVE GCD(_, _)
GCD(a, b) == IF b = 0 THEN a ELSE GCD(b, a % b)

Frac(n, d) ==
    LET g == GCD(Abs(n), Abs(d))
        sign == IF d < 0 THEN 0 - 1 ELSE 1
    IN  [num |-> sign * (n \div g), den |-> sign * (d \div g)]

Garbage == [num |-> 0, den |-> 0]

\* the sum of f[i] for i in 1..n
RECURSIVE SumTo(_, _)
SumTo(f, n) == IF n = 0 THEN 0 ELSE f[n] + SumTo(f, n - 1)

SumSeq(f) == SumTo(f, Len(f))

\* numpy.transpose(a).dot(b) for a matrix a (a list of rows with ncols columns)
\* and a matrix b with the same number of rows
TransposeDot(a, ncols, b, bcols) ==
    [i \in 1..ncols |->
        [j \in 1..bcols |-> SumSeq([r \in 1..Len(a) |-> a[r][i] * b[r][j]])]]

\* numpy.transpose(a).dot(v) for a vector v
TransposeDotVec(a, ncols, v) ==
    [i \in 1..ncols |-> SumSeq([r \in 1..Len(a) |-> a[r][i] * v[r]])]

\* the matrix without row 1 and column j
MinorOfFirstRow(m, j) ==
    [r \in 1..(Len(m) - 1) |->
        [c \in 1..(Len(m) - 1) |-> m[r + 1][IF c < j THEN c ELSE c + 1]]]

\* the determinant, by expansion along the first row
RECURSIVE Det(_)
Det(m) ==
    IF Len(m) = 0 THEN 1
    ELSE IF Len(m) = 1 THEN m[1][1]
    ELSE SumSeq([j \in 1..Len(m) |->
                    IF m[1][j] = 0 THEN 0
                    ELSE (IF j % 2 = 1 THEN 1 ELSE 0 - 1) * m[1][j]
                         * Det(MinorOfFirstRow(m, j))])

\* the matrix without row i and column j
Minor(m, i, j) ==
    [r \in 1..(Len(m) - 1) |->
        [c \in 1..(Len(m) - 1) |->
            m[IF r < i THEN r ELSE r + 1][IF c < j THEN c ELSE c + 1]]]

\* the adjugate: Det(m) times the inverse of a non-singular m
Adjugate(m) ==
    [i \in 1..Len(m) |->
        [j \in 1..Len(m) |->
            (IF (i + j) % 2 = 0 THEN 1 ELSE 0 - 1) * Det(Minor(m, j, i))]]

\* numpy.linalg.solve(m, v) for a non-singular m with determinant d and
\* adjugate adj: the exact solution adj.v / d
SolveExact(adj, d, v) ==
    [i \in 1..Len(adj) |-> Frac(SumSeq([j \in 1..Len(adj) |-> adj[i][j] * v[j]]), d)]

(***************************************************************************)
(* stats.match_matrix                                                      *)
(***************************************************************************)
ParticipationThreshold == 8

IsQual(match) == match.comp_level = "qm"

QualMatches(ev) == Filter(ev.matches, IsQual)

\* a matchRow marking the teams of both alliances
MatchRow_AnyColour(ev, match, colour) ==
    [j \in 1..Len(ev.teams) |->
        IF \/ InList(ev.teams[j].key, match.alliances.red.teams)
           \/ InList(ev.teams[j].key, match.alliances.blue.teams) THEN 1 ELSE 0]

\* one matchRow: 1 for each event team listed by the alliance, else 0
MatchRow(ev, match, colour) ==
    [j \in 1..Len(ev.teams) |->
        IF InList(ev.teams[j].key, match.alliances[colour].teams) THEN 1 ELSE 0]

\* match_list with the blue row of a match before its red row
MatchList_BlueFirst(ev) ==
    LET quals == QualMatches(ev) IN
    [r \in 1..(2 * Len(quals)) |->
        MatchRow(ev, quals[(r + 1) \div 2], IF r % 2 = 1 THEN "blue" ELSE "red")]

\* match_list: per qualification match the red row, then the blue row
MatchList(ev) ==
    LET quals == QualMatches(ev) IN
    [r \in 1..(2 * Len(quals)) |->
        MatchRow(ev, quals[(r + 1) \div 2], IF r % 2 = 1 THEN "red" ELSE "blue")]

\* numpy.count_nonzero of column j
CountNonzero(rows, j) == Cardinality({r \in 1..Len(rows) : rows[r][j] # 0})

\* the columns a boolean mask over 1..n keeps, in order
RECURSIVE KeptFrom(_, _, _)
KeptFrom(keep, j, n) ==
    IF j > n THEN <<>>
    ELSE (IF keep[j] THEN <<j>> ELSE <<>>) \o KeptFrom(keep, j + 1, n)

\* the columns kept with >= in place of >
KeptColumns_AtLeast(ev) ==
    LET rows == MatchList(ev) IN
    KeptFrom([j \in 1..Len(ev.teams) |->
                 CountNonzero(rows, j) >= ParticipationThreshold],
             1, Len(ev.teams))

\* the columns whose count of nonzero entries is > 8
KeptColumns(ev) ==
    LET rows == MatchList(ev) IN
    KeptFrom([j \in 1..Len(ev.teams) |->
                 CountNonzero(rows, j) > ParticipationThreshold],
             1, Len(ev.teams))

\* match_matrix(event) for an event with qualification matches and teams:
\* mat[:, counts > 8]
match_matrix(ev) ==
    LET rows == MatchList(ev)
        kept == KeptColumns(ev)
    IN  [r \in 1..Len(rows) |-> [c \in 1..Len(kept) |-> rows[r][kept[c]]]]

(***************************************************************************)
(* stats.opr.  A dPath string is a Python string written as the sequence   *)
(* of its parts: "/" separators, the tokens "##ALLIANCE" and               *)
(* "##OPPALLIANCE", and names.  A match is looked up through its numeric   *)
(* leaves, keyed by the list of path segments that leads to each.          *)
(***************************************************************************)
RaiseAt(exc, line) == [kind |-> "raise", exc |-> exc, line |-> line]

PyFunction(name) == [type |-> "function", name |-> name]

\* the path to the opposing alliance's score
TotalPath_Opponent == PyStr(<<"/", "alliances", "/", "##OPPALLIANCE", "/", "score">>)

\* the path of line 71
TotalPath == PyStr(<<"/", "alliances", "/", "##ALLIANCE", "/", "score">>)

\* kwargs[key] = value on a dict kept as its list of items, in insertion order
SetItem(kwargs, key, value) ==
    IF \E i \in DOMAIN kwargs : kwargs[i].key = key
    THEN [i \in DOMAIN kwargs |->
            IF kwargs[i].key = key THEN [key |-> key, item |-> value] ELSE kwargs[i]]
    ELSE Append(kwargs, [key |-> key, item |-> value])

\* kwargs.setdefault('total', ...): a caller's own 'total' is kept
WithTotal_KeepCallers(kwargs) ==
    IF \E i \in DOMAIN kwargs : kwargs[i].key = "total" THEN kwargs
    ELSE Append(kwargs, [key |-> "total", item |-> TotalPath])

\* kwargs['total'] = '/alliances/##ALLIANCE/score'
WithTotal(kwargs) == SetItem(kwargs, "total", TotalPath)

\* path.split('/') after the leading separators are stripped
RECURSIVE SplitSegments(_, _)
SplitSegments(path, current) ==
    IF Len(path) = 0 THEN <<current>>
    ELSE IF Head(path) = "/" THEN <<current>> \o SplitSegments(Tail(path), <<>>)
    ELSE SplitSegments(Tail(path), Append(current, Head(path)))

RECURSIVE StripLeadingSlashes(_)
StripLeadingSlashes(path) ==
    IF Len(path) > 0 /\ Head(path) = "/" THEN StripLeadingSlashes(Tail(path)) ELSE path

\* dpath.util.get(obj, path) for a path without globs, obj given by its leaves
DpathGet(leaves, path, line) ==
    LET segments == SplitSegments(StripLeadingSlashes(path), <<>>) IN
    IF \E i \in DOMAIN segments : Len(segments[i]) = 0
    THEN RaiseAt("InvalidKeyName", line)
    ELSE IF segments \in DOMAIN leaves THEN Return(leaves[segments])
    ELSE RaiseAt("KeyError", line)

\* the leaves of a score breakdown; a breakdown may hold further entries,
\* listed under "other" as key and value
BreakdownLeaves(bd) ==
    (<< <<"teleopPoints">> >> :> bd.teleopPoints)
    @@ (<< <<"towerEndStrength">> >> :> bd.towerEndStrength)
    @@ (IF "other" \in DOMAIN bd
        THEN [q \in { << <<bd.other[i].key>> >> : i \in DOMAIN bd.other } |->
                 bd.other[CHOOSE i \in DOMAIN bd.other : << <<bd.other[i].key>> >> = q].value]
        ELSE <<>>)

Colours == {"red", "blue"}

MatchLeaves(match) ==
    LET under(prefix, leaves) ==
            [q \in {prefix \o k : k \in DOMAIN leaves} |->
                leaves[SubSeq(q, Len(prefix) + 1, Len(q))]]
        alliance(c) ==
            << <<"alliances">>, <<c>>, <<"score">> >> :> match.alliances[c].score
        breakdown(c) ==
            under(<< <<"score_breakdown">>, <<c>> >>,
                  BreakdownLeaves(match.score_breakdown[c]))
    IN  alliance("red") @@ alliance("blue") @@ breakdown("red") @@ breakdown("blue")
        @@ (<< <<"match_number">> >> :> match.match_number)
        @@ (<< <<"set_number">> >> :> match.set_number)

\* the example function of the docstring and of the tests
tower_strength(match, alliance) ==
    LET tower == IF alliance = "blue" THEN "red" ELSE "blue"
    IN  8 - match.score_breakdown[tower].towerEndStrength

\* item(match, alliance) for the functions of the model
CallFunction(item, match, alliance) == Return(tower_strength(match, alliance))

\* one entry of the red score row (the first inner loop of opr)
ExtractRed(item, match) ==
    IF item.type = "function" THEN CallFunction(item, match, "red")
    ELSE IF item.type = "str" THEN
        IF Len(item.chars) = 0 THEN RaiseAt("IndexError", 78)
        ELSE IF item.chars[1] = "/"
        THEN DpathGet(MatchLeaves(match),
                      Tail(StrReplace(StrReplace(item.chars, <<"##ALLIANCE">>, <<"red">>),
                                      <<"##OPPALLIANCE">>, <<"blue">>)), 80)
        ELSE DpathGet(BreakdownLeaves(match.score_breakdown.red),
                      StrReplace(item.chars, <<"##ALLIANCE">>, <<"red">>), 83)
    ELSE RaiseAt("ValueError", 85)

\* one entry of the blue score row (the second inner loop of opr)
ExtractBlue(item, match) ==
    IF item.type = "function" THEN CallFunction(item, match, "blue")
    ELSE IF item.type = "str" THEN
        IF Len(item.chars) = 0 THEN RaiseAt("IndexError", 92)
        ELSE IF item.chars[1] = "/"
        THEN DpathGet(MatchLeaves(match),
                      Tail(StrReplace(StrReplace(item.chars, <<"##ALLIANCE">>, <<"blue">>),
                                      <<"##OPPALLIANCE">>, <<"red">>)), 94)
        ELSE DpathGet(BreakdownLeaves(match.score_breakdown.blue),
                      StrReplace(StrReplace(item.chars, <<"##ALLIANCE">>, <<"blue">>),
                                 <<"##OPPALLIANCE">>, <<"red">>), 97)
    ELSE RaiseAt("ValueError", 99)

\* every entry extracted as for the red row
Extract_AlwaysRed(item, match, colour) == ExtractRed(item, match)

\* one entry of the score row of the colour
Extract(item, match, colour) ==
    IF colour = "red" THEN ExtractRed(item, match) ELSE ExtractBlue(item, match)

\* the score row of one alliance: every item of kwargs, in order; the first
\* exception ends the call
RECURSIVE ScoreRow(_, _, _, _)
ScoreRow(kwargs, match, colour, score) ==
    IF Len(kwargs) = 0 THEN Return(score)
    ELSE LET got == Extract(Head(kwargs).item, match, colour) IN
         IF got.kind = "raise" THEN got
         ELSE ScoreRow(Tail(kwargs), match, colour, Append(score, got.val))

\* match_scores: per qualification match the red score row, then the blue one
RECURSIVE MatchScores(_, _, _)
MatchScores(kwargs, quals, match_scores) ==
    IF Len(quals) = 0 THEN Return(match_scores)
    ELSE LET red == ScoreRow(kwargs, Head(quals), "red", <<>>) IN
         IF red.kind = "raise" THEN red
         ELSE LET blue == ScoreRow(kwargs, Head(quals), "blue", <<>>) IN
              IF blue.kind = "raise" THEN blue
              ELSE MatchScores(kwargs, Tail(quals),
                               match_scores \o <<red.val, blue.val>>)

\* the column read with col left at 0
Column_First(rows, col) == [r \in 1..Len(rows) |-> rows[r][1]]

\* score_matrix[:, col]
Column(rows, col) == [r \in 1..Len(rows) |-> rows[r][col]]

\* opr_dict after the loops of lines 107-120: the i-th entry of each solution
\* goes to the i-th event team
OprDict(ev, kwargs, solutions) ==
    [k \in {ev.teams[i].key : i \in DOMAIN ev.teams} |->
        LET row == CHOOSE i \in DOMAIN ev.teams :
                       /\ ev.teams[i].key = k
                       /\ \A j \in DOMAIN ev.teams : ev.teams[j].key = k => j <= i
        IN  [key \in {kwargs[c].key : c \in DOMAIN kwargs} |->
                solutions[CHOOSE c \in DOMAIN kwargs : kwargs[c].key = key][row]]]

\* what opr leaves behind: the outcome with the values of its local variables
Outcome(result, kwargs, match_scores, matrix) ==
    [result |-> result, kwargs |-> kwargs,
     match_scores |-> match_scores, matrix |-> matrix]

\* every way a call opr(ev, **callkwargs) can end.  Where the build decides
\* (the numpy version, assertions stripped by -O, a floating-point solve of a
\* singular system) each possible end is in the set.
OprOutcomes(ev, callkwargs) ==
    LET kwargs == WithTotal(callkwargs)
        quals == QualMatches(ev)
        scores == MatchScores(kwargs, quals, <<>>)
    IN  IF scores.kind = "raise" THEN {Outcome(scores, kwargs, <<>>, <<>>)}
        ELSE IF Len(quals) = 0
        THEN \* numpy.array([]) has one dimension: indexing it with two fails
             {Outcome(RaiseAt("IndexError", line), kwargs, scores.val, <<>>) :
                 line \in {32, 113}}
        ELSE IF Len(ev.teams) = 0
        THEN \* apply_along_axis over no columns
             {Outcome(RaiseAt(exc, 32), kwargs, scores.val, <<>>) :
                 exc \in {"ValueError", "IndexError"}}
        ELSE
        LET matrix == match_matrix(ev)
            ncols == Len(KeptColumns(ev))
            mat == TransposeDot(matrix, ncols, matrix, ncols)
            det == Det(mat)
            \* an exactly singular mat raises LinAlgError; where floating
            \* point meets no zero pivot the solve returns meaningless values
            singular == det = 0
            adj == Adjugate(mat)
            solutions ==
                [c \in DOMAIN kwargs |->
                    IF singular THEN [i \in 1..ncols |-> Garbage]
                    ELSE SolveExact(adj, det, TransposeDotVec(matrix, ncols,
                                                              Column(scores.val, c)))]
            \* the assertion of line 115 is stripped by -O; then opr[row]
            \* runs past the end of the solution
            after_solve ==
                IF ncols # Len(ev.teams)
                THEN {RaiseAt("AssertionError", 115), RaiseAt("IndexError", 118)}
                ELSE {Return(OprDict(ev, kwargs, solutions))}
        IN  { Outcome(r, kwargs, scores.val, matrix) :
                r \in (IF singular THEN {RaiseAt("LinAlgError", 114)} ELSE {})
                      \cup after_solve }

(***************************************************************************)
(* Payloads of SpecOpr.  Six teams are on the team list.  On the schedule   *)
(* "trios" they play three against three, through the ten ways to split    *)
(* six teams into two alliances.  On the other schedules teams 1..4 play   *)
(* two against two: rotating the three ways to pair them ("rotate"),       *)
(* repeating one pairing ("fixed": the columns of partners coincide and    *)
(* the system is singular), or rotating with team 5 standing in for team 4 *)
(* in the first match ("guest").  An alliance scores the sum of its teams' *)
(* contributions, plus a surplus for red in the first match.               *)
(***************************************************************************)
MaxQual == 10

MaxPlayoff == 1

MaxContribution == 2

Pairings ==
    << [red |-> <<1, 2>>, blue |-> <<3, 4>>],
       [red |-> <<1, 3>>, blue |-> <<2, 4>>],
       [red |-> <<1, 4>>, blue |-> <<2, 3>>] >>

Trios ==
    << [red |-> <<1, 2, 3>>, blue |-> <<4, 5, 6>>],
       [red |-> <<1, 2, 4>>, blue |-> <<3, 5, 6>>],
       [red |-> <<1, 2, 5>>, blue |-> <<3, 4, 6>>],
       [red |-> <<1, 2, 6>>, blue |-> <<3, 4, 5>>],
       [red |-> <<1, 3, 4>>, blue |-> <<2, 5, 6>>],
       [red |-> <<1, 3, 5>>, blue |-> <<2, 4, 6>>],
       [red |-> <<1, 3, 6>>, blue |-> <<2, 4, 5>>],
       [red |-> <<1, 4, 5>>, blue |-> <<2, 3, 6>>],
       [red |-> <<1, 4, 6>>, blue |-> <<2, 3, 5>>],
       [red |-> <<1, 5, 6>>, blue |-> <<2, 3, 4>>] >>

Schedules == {"rotate", "fixed", "guest"}

ScheduledTeams(schedule, i) ==
    IF schedule = "trios" THEN Trios[((i - 1) % Len(Trios)) + 1]
    ELSE IF schedule = "fixed" THEN Pairings[1]
    ELSE IF schedule = "guest" /\ i = 1 THEN [red |-> <<1, 2>>, blue |-> <<3, 5>>]
    ELSE Pairings[((i - 1) % 3) + 1]

AllTeamNumbers == 1..6

\* per-team contributions: the same k for every team, or the team's number
\* the surplus of red in the first match: none, or one point
Surpluses == {0, 1}

Contributions ==
    { [t \in AllTeamNumbers |-> k] : k \in 1..MaxContribution }
    \cup { [t \in AllTeamNumbers |-> t] }

TeleopOf(c, t) == c[t] - 1

BouldersOf(t) == t % 3

SumOver(teams, f(_)) == SumSeq([i \in DOMAIN teams |-> f(teams[i])])

QualMatch(gen, i) ==
    LET on == ScheduledTeams(gen.schedule, i)
        points(t) == gen.contributions[t]
        teleop(t) == TeleopOf(gen.contributions, t)
        score(c) == SumOver(on[c], points)
                    + (IF i = 1 /\ c = "red" THEN gen.surplus ELSE 0)
        other(c) == IF c = "red" THEN "blue" ELSE "red"
        breakdown(c) == Breakdown(SumOver(on[c], teleop),
                                  8 - SumOver(on[other(c)], BouldersOf))
    IN  [key |-> MatchKey("qm", 1, i),
         comp_level |-> "qm", set_number |-> 1, match_number |-> i,
         alliances |-> [red |-> Alliance(on.red, score("red")),
                        blue |-> Alliance(on.blue, score("blue"))],
         score_breakdown |-> [red |-> breakdown("red"), blue |-> breakdown("blue")]]

PlayoffMatch(j) ==
    MatchModel("sf", 1, j, Alliance(<<1, 2>>, 90 + j), Alliance(<<3, 4>>, 80))

\* the payload lists the playoff matches first and the qualification matches
\* latest first: the constructor's sort puts them in order
OprPayload(gen) ==
    [info |-> [key |-> EventKey, name |-> "Test"],
     teams |-> [i \in 1..gen.roster |-> TeamModel(i)],
     matches |-> [j \in 1..gen.playoffs |-> PlayoffMatch(j)]
                 \o [i \in 1..gen.quals |-> QualMatch(gen, gen.quals + 1 - i)],
     awards |-> <<>>, rankings |-> <<>>,
     filtered |-> gen.filtered, key |-> None, gen |-> gen]

\* no qualification match, one, and the numbers around the threshold
QualCounts == {0, 1} \cup (ParticipationThreshold..MaxQual)

\* the two-against-two schedules in every combination; three against three
\* in a full season; and one payload with an empty team list
OprPayloads ==
    { OprPayload([schedule |-> schedule, quals |-> quals, playoffs |-> playoffs,
                  contributions |-> c, surplus |-> surplus,
                  roster |-> 6, filtered |-> filtered]) :
        schedule \in Schedules, quals \in QualCounts, playoffs \in 0..MaxPlayoff,
        c \in Contributions, surplus \in Surpluses, filtered \in BOOLEAN }
    \cup
    { OprPayload([schedule |-> "trios", quals |-> MaxQual, playoffs |-> 0,
                  contributions |-> c, surplus |-> surplus,
                  roster |-> 6, filtered |-> TRUE]) :
        c \in Contributions, surplus \in Surpluses }
    \cup
    { OprPayload([schedule |-> "rotate", quals |-> 1, playoffs |-> 0,
                  contributions |-> [t \in AllTeamNumbers |-> 1], surplus |-> 0,
                  roster |-> 0, filtered |-> FALSE]) }

KeywordArgs(keys, items) == [i \in DOMAIN keys |-> [key |-> keys[i], item |-> items[i]]]

AllianceScorePath == PyStr(<<"/", "alliances", "/", "##ALLIANCE", "/", "score">>)

OpponentScorePath == PyStr(<<"/", "alliances", "/", "##OPPALLIANCE", "/", "score">>)

TeleopPath == PyStr(<<"teleopPoints">>)

\* the calls of the tests and of the docstring, and calls with a malformed,
\* unresolvable or reserved-name statistic
OprCalls ==
    { <<>>,
      KeywordArgs(<<"alt_score", "teleop", "boulders">>,
                  <<AllianceScorePath, TeleopPath, PyFunction("tower_strength")>>),
      KeywordArgs(<<"dpr">>, <<OpponentScorePath>>),
      KeywordArgs(<<"invalid_kwarg">>, <<PyInt(6)>>),
      KeywordArgs(<<"teleop", "invalid_kwarg">>, <<TeleopPath, PyInt(6)>>),
      KeywordArgs(<<"missing", "invalid_kwarg">>, <<PyStr(<<"nosuch">>), PyInt(6)>>),
      KeywordArgs(<<"total">>, <<PyInt(6)>>),
      KeywordArgs(<<"total">>, <<TeleopPath>>),
      KeywordArgs(<<"total", "teleop">>, <<PyFunction("tower_strength"), TeleopPath>>),
      KeywordArgs(<<"empty">>, <<PyStr(<<>>)>>) }

\* a call opr(event, **kwargs) on the constructed event
Opr ==
    /\ Constructed
    /\ opr_result = None
    /\ \E kwargs \in OprCalls :
          /\ opr_kwargs' = kwargs
          /\ opr_result' \in OprOutcomes(event.val, kwargs)
    /\ UNCHANGED <<evars, fvars, wvars, qvars, avars>>

(***************************************************************************)
(* Claims about stats.opr (checked under SpecOpr).  They are stated on the *)
(* constructed event, the caller's keyword arguments and what the call     *)
(* left behind.                                                            *)
(***************************************************************************)
OprCalled == opr_result # None

OprReturned == OprCalled /\ opr_result.result.kind = "return"

OprFailed == OprCalled /\ opr_result.result.kind = "raise"

\* a list, and a list of lists, with every entry computed
Listed(list) == list \o <<>>

ListedRows(m) == Listed([i \in 1..Len(m) |-> Listed(m[i])])

\* the (qualification match, colour) rows, red before blue, in match order
RowsOf(ev) ==
    LET quals == QualMatches(ev) IN
    Listed([r \in 1..(2 * Len(quals)) |->
               [match |-> quals[(r + 1) \div 2],
                colour |-> IF r % 2 = 1 THEN "red" ELSE "blue"]])

QualRows == RowsOf(event.val)

RowTeams(row) == Range(row.match.alliances[row.colour].teams)

\* the team's participation count over the qualification rows
Appearances(rows, key) == Cardinality({r \in DOMAIN rows : key \in RowTeams(rows[r])})

\* the teams with a participation count > 8, in the order of the team list
RetainedOf(rows, teams) ==
    LET kept(team) == Appearances(rows, team.key) > 8 IN SelectSeq(teams, kept)

RetainedTeams == RetainedOf(QualRows, event.val.teams)

RetainedKeys == {RetainedTeams[i].key : i \in DOMAIN RetainedTeams}

\* the participation matrix of the rows over the retained teams
ParticipationOf(rows, retained) ==
    ListedRows([r \in DOMAIN rows |->
                   [i \in DOMAIN retained |->
                       IF retained[i].key \in RowTeams(rows[r]) THEN 1 ELSE 0]])

Participation == ParticipationOf(QualRows, RetainedTeams)

\* AtA for the participation matrix A over n retained teams
NormalOf(part, n) == ListedRows(TransposeDot(part, n, part, n))

NormalMatrix == NormalOf(Participation, Len(RetainedTeams))

RetainedSystemInvertible == Len(RetainedTeams) > 0 /\ Det(NormalMatrix) # 0

RequestedNames == {opr_kwargs[i].key : i \in DOMAIN opr_kwargs} \cup {"total"}

Requested(name, item) ==
    \E i \in DOMAIN opr_kwargs : opr_kwargs[i].key = name /\ opr_kwargs[i].item = item

\* every statistic of the call is a path that resolves in every match, or a
\* function
RequestedResolvable ==
    \A i \in DOMAIN opr_kwargs :
        opr_kwargs[i].item \in {AllianceScorePath, OpponentScorePath, TeleopPath,
                                PyFunction("tower_strength")}

\* the column of the score matrix that holds the statistic
StatisticColumn(name) ==
    CHOOSE c \in DOMAIN opr_result.kwargs : opr_result.kwargs[c].key = name

\* x solves normal . x = scale * rhs
SolvesScaled(normal, scale, x, rhs) ==
    \A i \in DOMAIN normal :
        SumSeq([j \in DOMAIN normal |-> normal[i][j] * x[j]]) = scale * rhs[i]

\* the values times scale, a multiple of the denominators
Scaled(val, name, retained, scale) ==
    Listed([i \in DOMAIN retained |->
               val[retained[i].key][name].num
               * (scale \div val[retained[i].key][name].den)])

\* the result's values of one statistic, taken in the order of the retained
\* teams, solve the normal equations of that statistic's score column
SolvesNormalEquations(name, retained, part, normal, scale) ==
    SolvesScaled(normal, scale,
                 Scaled(opr_result.result.val, name, retained, scale),
                 Listed(TransposeDotVec(part, Len(retained),
                                        Column(opr_result.match_scores,
                                               StatisticColumn(name)))))

\* the claim of C1 on the rows, the team list and the retained teams
ReturnsRetained(rows, teams, retained, part, normal, det) ==
    /\ OprReturned =>
          /\ DOMAIN opr_result.result.val = {retained[i].key : i \in DOMAIN retained}
          /\ \A k \in DOMAIN opr_result.result.val :
                DOMAIN opr_result.result.val[k] = RequestedNames
          /\ (Len(retained) > 0 /\ det # 0) =>
                \A name \in RequestedNames :
                    SolvesNormalEquations(name, retained, part, normal, Abs(det))
    /\ ( /\ RequestedResolvable
         /\ Len(retained) > 0
         /\ det # 0
         /\ \E i \in DOMAIN teams :
                /\ Appearances(rows, teams[i].key) > 0
                /\ Appearances(rows, teams[i].key) <= 8 )
       => OprReturned

ReturnsRetainedOver(rows, teams, retained, part, normal) ==
    ReturnsRetained(rows, teams, retained, part, normal, Det(normal))

\* C1: whenever opr returns, the keys of the result are exactly the retained
\* teams (participation count over the qualification rows > 8), each mapped to
\* exactly the requested statistic names plus 'total', the i-th solution entry
\* going to the i-th retained team; and for an event in which some teams that
\* played are dropped by the threshold while others are retained, opr returns
\* instead of failing.
C1_ReturnsRetainedTeams ==
    OprCalled =>
        ReturnsRetainedOver(QualRows, event.val.teams, RetainedTeams,
                            Participation, NormalMatrix)

NoTeamRetained == Len(RetainedTeams) = 0

Malformed(item) == item.type \notin {"str", "function"}

\* C3: when some value of the statistic mapping is neither a string nor a
\* callable, opr fails with ValueError, before the participation matrix is
\* built, whatever the number of qualification matches and the position of the
\* malformed entry.
C3_MalformedFailsFast ==
    ( /\ OprCalled
      /\ \E i \in DOMAIN opr_kwargs : Malformed(opr_kwargs[i].item) ) =>
        /\ OprFailed
        /\ opr_result.result.exc = "ValueError"
        /\ opr_result.result.line < 102

\* the raw score of the row's alliance
RawScore(row) == row.match.alliances[row.colour].score

\* C4: opr always has a 'total' statistic, even when the caller requests none;
\* its score-matrix entry for each (qualification match, colour) row is that
\* alliance's raw match score; and a caller statistic defined as the path
\* '/alliances/##ALLIANCE/score' gets for every team the value of 'total'.
C4_TotalIsAllianceScore ==
    OprCalled =>
        /\ \E c \in DOMAIN opr_result.kwargs : opr_result.kwargs[c].key = "total"
        /\ LET rows == QualRows
                total == StatisticColumn("total")
           IN  \A r \in DOMAIN opr_result.match_scores :
                   opr_result.match_scores[r][total] = RawScore(rows[r])
        /\ OprReturned =>
              \A k \in DOMAIN opr_result.result.val :
                  /\ "total" \in DOMAIN opr_result.result.val[k]
                  /\ Requested("alt_score", AllianceScorePath) =>
                        opr_result.result.val[k].alt_score
                        = opr_result.result.val[k].total

\* C4 witness: the call of the tests returned, on an event whose first match
\* gave red a score the contributions do not explain
C4_Witness ==
    /\ OprReturned
    /\ Requested("alt_score", AllianceScorePath)
    /\ ~Requested("total", TeleopPath)
    /\ payload.gen.surplus = 1
    /\ opr_result.result.val[TeamKey(1)].total.den > 1
    /\ opr_result.result.val[TeamKey(1)].alt_score
       = opr_result.result.val[TeamKey(1)].total

CallersTotal == {i \in DOMAIN opr_kwargs : opr_kwargs[i].key = "total"}

CallerDefinesTotal ==
    \E i \in CallersTotal : opr_kwargs[i].item.type \in {"str", "function"}

OneTotalPerTeam ==
    /\ Cardinality({c \in DOMAIN opr_result.kwargs : opr_result.kwargs[c].key = "total"}) = 1
    /\ OprReturned =>
          \A k \in DOMAIN opr_result.result.val :
              /\ "total" \in DOMAIN opr_result.result.val[k]
              /\ DOMAIN opr_result.result.val[k] = RequestedNames

\* the value the caller's own definition of 'total' has on the row
CallersValue(row) ==
    LET i == CHOOSE i \in CallersTotal : TRUE
    IN  Extract(opr_kwargs[i].item, row.match, row.colour).val

\* C5 (as stated): when the caller passes its own statistic named 'total', the
\* 'total' column of the score matrix is computed with the caller's
\* definition; the result has exactly one 'total' key per team.
C5_CallersTotalUsed ==
    (OprCalled /\ CallerDefinesTotal) =>
        /\ LET rows == QualRows
                total == StatisticColumn("total")
           IN  \A r \in DOMAIN opr_result.match_scores :
                   opr_result.match_scores[r][total] = CallersValue(rows[r])
        /\ OneTotalPerTeam

\* C5: when the caller passes its own statistic named 'total', that definition
\* is discarded: the 'total' column of the score matrix is computed with the
\* built-in alliance-score path; the result has exactly one 'total' key per
\* team.
C5_CallersTotalDiscarded ==
    (OprCalled /\ CallerDefinesTotal) =>
        /\ \A c \in DOMAIN opr_result.kwargs :
              opr_result.kwargs[c].key = "total" => opr_result.kwargs[c].item = TotalPath
        /\ LET rows == QualRows
                total == StatisticColumn("total")
           IN  \A r \in DOMAIN opr_result.match_scores :
                   opr_result.match_scores[r][total] = RawScore(rows[r])
        /\ OneTotalPerTeam

\* C5 witness: a call with total='teleopPoints' returned the alliance-score
\* total, which differs from the teleop one
C5_Witness ==
    /\ OprReturned
    /\ Requested("total", TeleopPath)
    /\ payload.gen.surplus = 0
    /\ payload.gen.schedule = "rotate"
    /\ opr_result.result.val[TeamKey(4)].total = Frac(payload.gen.contributions[4], 1)
    /\ TeleopOf(payload.gen.contributions, 4) # payload.gen.contributions[4]

\* the statistic is requested with an alliance value that is the sum of the
\* per-team values f of the alliance's teams
SumStatistics ==
    { [name |-> "total", requested |-> TRUE],
      [name |-> "alt_score", requested |-> Requested("alt_score", AllianceScorePath)],
      [name |-> "teleop", requested |-> Requested("teleop", TeleopPath)],
      [name |-> "boulders", requested |-> Requested("boulders", PyFunction("tower_strength"))] }

TrueContribution(name, t) ==
    IF name = "teleop" THEN TeleopOf(payload.gen.contributions, t)
    ELSE IF name = "boulders" THEN BouldersOf(t)
    ELSE payload.gen.contributions[t]

\* C6: for an event in which every team is retained, every alliance value is
\* the sum of its teams' contributions (3k for three teams of constant
\* contribution k) and AtA is invertible, opr returns each team's contribution
\* for every statistic.
C6_RecoversContributions ==
    (OprReturned /\ payload.gen.surplus = 0 /\ RetainedSystemInvertible) =>
        \A i \in DOMAIN event.val.teams :
            \A s \in SumStatistics :
                s.requested =>
                    opr_result.result.val[event.val.teams[i].key][s.name]
                    = Frac(TrueContribution(s.name, event.val.teams[i].team_number), 1)

\* C6 witness: alliances of three teams with the constant contribution, every
\* team retained, and the call of the tests returning that constant
C6_Witness ==
    /\ OprReturned
    /\ payload.gen.schedule = "trios"
    /\ payload.gen.surplus = 0
    /\ Len(RetainedTeams) = Len(payload.teams)
    /\ RetainedSystemInvertible
    /\ \A t \in AllTeamNumbers : payload.gen.contributions[t] = MaxContribution
    /\ LET rows == QualRows
       IN  \A r \in DOMAIN rows : RawScore(rows[r]) = 3 * MaxContribution
    /\ Requested("alt_score", AllianceScorePath)
    /\ \A t \in AllTeamNumbers :
          opr_result.result.val[TeamKey(t)].alt_score = Frac(MaxContribution, 1)

InitOpr ==
    /\ payload \in OprPayloads
    /\ event = None
    /\ IdleOprVars
    /\ IdleFormatVars
    /\ IdleWrapVars
    /\ IdleQueryVars
    /\ IdleClientVars

NextOpr ==
    \/ EventConstruct
    \/ Opr

SpecOpr == InitOpr /\ [][NextOpr]_vars

(***************************************************************************)
(* The accessors of models.Event.  Each is an operator on the attributes    *)
(* of self; the decorated ones receive the team as team_wrap left it.       *)
(***************************************************************************)
\* Event.get_match: self.key is read first, and is missing when __init__
\* never assigned it
get_match(self, match_key) ==
    IF self.key = Unset THEN Raise("AttributeError")
    ELSE LET key == self.key \o <<"_">> \o match_key
             found == {i \in DOMAIN self.matches : self.matches[i].key = key}
         IN  IF found = {} THEN Return(None)
             ELSE Return(self.matches[CHOOSE i \in found : \A j \in found : i <= j])

IsPlayoff(match) == match.comp_level # "qm"

\* Event.get_qual_matches
get_qual_matches(self) == Filter(self.matches, IsQual)

\* Event.get_playoff_matches
get_playoff_matches(self) == Filter(self.matches, IsPlayoff)

Qualification == PyStr(<<"qualification">>)

Playoffs == PyStr(<<"playoffs">>)

\* the selection with the two tests in the other order: qualification wins
SelectRound_QualsLast(self, round, quals_only, playoffs_only) ==
    LET filteredMatches == self.matches
        playoffs == IF round = Playoffs \/ playoffs_only
                    THEN get_playoff_matches(self) ELSE filteredMatches
    IN  IF round = Qualification \/ quals_only
        THEN get_qual_matches(self) ELSE playoffs

\* filteredMatches of Event.team_matches: the second test overwrites the first
SelectRound(self, round, quals_only, playoffs_only) ==
    LET filteredMatches == self.matches
        quals == IF round = Qualification \/ quals_only
                 THEN get_qual_matches(self) ELSE filteredMatches
    IN  IF round = Playoffs \/ playoffs_only
        THEN get_playoff_matches(self) ELSE quals

OtherColour(colour) == IF colour = "red" THEN "blue" ELSE "red"

\* an entry carrying the opponent's score as the team's
MatchEntry_OppScore(match, colour) ==
    [match |-> match, alliance |-> colour,
     score |-> match.alliances[OtherColour(colour)].score,
     opp_score |-> match.alliances[OtherColour(colour)].score]

\* the dict Event.team_matches appends for a match and the team's colour
MatchEntry(match, colour) ==
    [match |-> match, alliance |-> colour,
     score |-> match.alliances[colour].score,
     opp_score |-> match.alliances[OtherColour(colour)].score]

\* the loop of Event.team_matches over the selected matches
RECURSIVE TeamEntries(_, _)
TeamEntries(team, matches) ==
    IF Len(matches) = 0 THEN <<>>
    ELSE LET match == Head(matches)
             entry == IF InList(team, match.alliances.red.teams)
                      THEN <<MatchEntry(match, "red")>>
                      ELSE IF InList(team, match.alliances.blue.teams)
                      THEN <<MatchEntry(match, "blue")>>
                      ELSE <<>>
         IN  entry \o TeamEntries(team, Tail(matches))

\* Event.team_matches, on the team key team_wrap(pos=1) passes
team_matches(self, team, round, quals_only, playoffs_only) ==
    TeamEntries(team, SelectRound(self, round, quals_only, playoffs_only))

AwardEntry(award, recipient) ==
    [award |-> award, name |-> award.name, awardee |-> recipient.awardee]

\* the inner loop stopping at the first recipient of the team
RecipientEntries_FirstOnly(team, award, recipients) ==
    LET hits == {i \in DOMAIN recipients : recipients[i].team_number = PyInt(team)}
    IN  IF hits = {} THEN <<>>
        ELSE <<AwardEntry(award, recipients[CHOOSE i \in hits : \A j \in hits : i <= j])>>

\* the inner loop of Event.team_awards over one award's recipient_list
RECURSIVE RecipientEntries(_, _, _)
RecipientEntries(team, award, recipients) ==
    IF Len(recipients) = 0 THEN <<>>
    ELSE (IF Head(recipients).team_number = PyInt(team)
          THEN <<AwardEntry(award, Head(recipients))>> ELSE <<>>)
         \o RecipientEntries(team, award, Tail(recipients))

\* the outer loop of Event.team_awards
RECURSIVE AwardEntries(_, _)
AwardEntries(team, awards) ==
    IF Len(awards) = 0 THEN <<>>
    ELSE RecipientEntries(team, Head(awards), Head(awards).recipient_list)
         \o AwardEntries(team, Tail(awards))

\* Event.team_awards, on the digit string team_wrap(pos=1, format="{}") passes
team_awards(self, team) == AwardEntries(IntParse(team).val, self.awards)

\* the dict built from the headers and the row: a later header of the same
\* name overwrites an earlier one
RankingDict(headers, rank) ==
    [c \in Range(headers) |->
        rank[CHOOSE i \in DOMAIN headers :
                /\ headers[i] = c
                /\ \A j \in DOMAIN headers : headers[j] = c => j <= i]]

\* Event.team_ranking, on the digit string team_wrap(pos=1, format="{}")
\* passes; the headers are read before the rows are searched
team_ranking(self, team, array) ==
    IF ~array /\ Len(self.rankings) = 0 THEN Raise("IndexError")
    ELSE LET hits == {i \in DOMAIN self.rankings : self.rankings[i][2] = PyStr(team)}
         IN  IF hits = {} THEN Return(None)
             ELSE LET rank == self.rankings[CHOOSE i \in hits : \A j \in hits : i <= j]
                  IN  IF array THEN Return(rank)
                      ELSE Return(RankingDict(self.rankings[1], rank))


(***************************************************************************)
(* Calls on a constructed event.  query holds the last call, query_result   *)
(* what it returned or raised, query_count the number of calls made.        *)
(***************************************************************************)
MaxCalls == 2

\* a match's key without the event key and the "_" that follows it
WithinEventKey(level, set, number) ==
    LET key == MatchKey(level, set, number)
    IN  SubSeq(key, Len(EventKey) + 2, Len(key))

QueryMatchKeys ==
    { WithinEventKey("qm", 1, 1), WithinEventKey("sf", 1, 2),
      WithinEventKey("qm", 1, 7), <<>> }

QueryTeams ==
    { PyInt(1), PyInt(7), PyStr(<<"0", "3">>), PyStr(<<"F", "R", "C", "3">>),
      PyStr(<<"a">>) }

\* round, quals_only and playoffs_only of a call: the two named rounds and no
\* round with every setting of the flags, and a round of another name
QueryRounds ==
    { [round |-> round, quals_only |-> quals_only, playoffs_only |-> playoffs_only] :
        round \in {None, Qualification, Playoffs},
        quals_only \in BOOLEAN, playoffs_only \in BOOLEAN }
    \cup { [round |-> PyStr(<<"finals">>), quals_only |-> FALSE, playoffs_only |-> FALSE] }

QueryOprCalls == { <<>>, KeywordArgs(<<"teleop">>, <<TeleopPath>>) }

RankingHeaders == <<PyStr(<<"Rank">>), PyStr(<<"Team">>), PyStr(<<"QS">>)>>

RankingRow(rank, team, qs) == <<PyStr(NatToStr(rank)), PyStr(NatToStr(team)), PyStr(NatToStr(qs))>>

Recipient(team_number, awardee) == [team_number |-> team_number, awardee |-> awardee]

AwardModel(name, recipients) == [name |-> name, recipient_list |-> recipients]

\* no awards; or a team award, an award to a person of no team, and an award
\* whose recipient list names team 3 twice
QueryAwards ==
    << <<>>,
       << AwardModel("Winner", <<Recipient(PyInt(1), None), Recipient(PyInt(3), None)>>),
         AwardModel("Volunteer", <<Recipient(None, PyStr(<<"Ann">>))>>),
         AwardModel("Deans List", <<Recipient(PyInt(3), PyStr(<<"Bo">>)),
                                    Recipient(PyInt(1), PyStr(<<"Cy">>)),
                                    Recipient(PyInt(3), PyStr(<<"Di">>))>>) >> >>

\* no table, headers only, a table, and a table listing team 3 twice
QueryRankings ==
    << <<>>,
       <<RankingHeaders>>,
       <<RankingHeaders, RankingRow(1, 3, 20), RankingRow(2, 1, 18)>>,
       <<RankingHeaders, RankingRow(1, 2, 9), RankingRow(2, 3, 7), RankingRow(3, 3, 5)>> >>

\* the awards and the ranking table of an event, by their place in QueryAwards
\* and QueryRankings
QueryTables ==
    { [awards |-> 1, rankings |-> 1], [awards |-> 2, rankings |-> 2],
      [awards |-> 2, rankings |-> 3], [awards |-> 1, rankings |-> 4] }

DefaultTables == [awards |-> 2, rankings |-> 3]

\* no matches, every match of the pool latest first, and three of them
QueryMatchLists ==
    { <<>>,
      << MatchModel("f", 1, 1, Alliance(<<1>>, 50), Alliance(<<9>>, 51)),
         MatchModel("sf", 1, 2, Alliance(<<9>>, 40), Alliance(<<3>>, 41)),
         MatchModel("qf", 2, 1, Alliance(<<2>>, 30), Alliance(<<9>>, 31)),
         MatchModel("qm", 1, 2, Alliance(<<3>>, 7), Alliance(<<1>>, 5)),
         MatchModel("qm", 1, 1, Alliance(<<1, 2>>, 10), Alliance(<<3>>, 20)) >>,
      << MatchModel("qm", 1, 2, Alliance(<<3>>, 7), Alliance(<<1>>, 5)),
         MatchModel("qf", 2, 1, Alliance(<<2>>, 30), Alliance(<<9>>, 31)),
         MatchModel("qm", 1, 1, Alliance(<<1, 2>>, 10), Alliance(<<3>>, 20)) >> }

\* the event's key comes from the info block, from an override next to it
\* (as TBAClient.event_get passes it), or from an override alone
QueryKeyModes ==
    << [info |-> [key |-> EventKey, name |-> "Test"], key |-> None],
       [info |-> [key |-> EventKey, name |-> "Test"], key |-> EventKey],
       [info |-> None, key |-> EventKey] >>

QueryPayload(mode, ms, tables) ==
    [info |-> QueryKeyModes[mode].info,
     teams |-> <<TeamModel(1), TeamModel(2), TeamModel(3)>>,
     matches |-> ms, awards |-> QueryAwards[tables.awards],
     rankings |-> QueryRankings[tables.rankings],
     filtered |-> TRUE, key |-> QueryKeyModes[mode].key]

\* the events queried: every way to key the event with the default tables, and
\* every pair of tables on an event keyed by its info block
InitQueryVars ==
    /\ \E mode \in DOMAIN QueryKeyModes, ms \in QueryMatchLists, tables \in QueryTables :
          /\ mode = 1 \/ tables = DefaultTables
          /\ payload = QueryPayload(mode, ms, tables)
    /\ event = None
    /\ IdleQueryVars

\* the attributes of self after team_matches, had it kept the selected
\* matches in self.matches
SelfAfter_KeepSelection(self, call) ==
    IF call.method = "team_matches"
    THEN [self EXCEPT !.matches = SelectRound(self, call.round, call.quals_only,
                                              call.playoffs_only)]
    ELSE self

\* the attributes of self after a call: no accessor, and neither
\* stats.match_matrix nor stats.opr, assigns to the event or changes its lists
SelfAfter(self, call) == self

\* what match_matrix(event) can end in; numpy fails as in opr where the
\* event has no qualification match or no team
MatchMatrixOutcomes(ev) ==
    IF Len(QualMatches(ev)) = 0 THEN {RaiseAt("IndexError", 32)}
    ELSE IF Len(ev.teams) = 0
    THEN {RaiseAt(exc, 32) : exc \in {"ValueError", "IndexError"}}
    ELSE {Return(match_matrix(ev))}

\* The decorated accessors run behind team_wrap(pos=1, format=...): the team
\* is formatted first, and a team team_format rejects ends the call.
\* a call event.get_match(k)
GetMatch ==
    /\ Constructed
    /\ query_count < MaxCalls
    /\ \E k \in QueryMatchKeys :
          /\ query' = [method |-> "get_match", match_key |-> k]
          /\ query_result' = get_match(event.val, k)
          /\ event' = Return(SelfAfter(event.val, query'))
    /\ query_count' = query_count + 1
    /\ UNCHANGED <<payload, fvars, wvars, ovars, avars>>

\* a call event.team_matches(team, round, quals_only, playoffs_only)
TeamMatches ==
    /\ Constructed
    /\ query_count < MaxCalls
    /\ \E team \in QueryTeams, r \in QueryRounds :
          LET key == team_format(team, FormatFrc) IN
          /\ query' = [method |-> "team_matches", team |-> team, round |-> r.round,
                      quals_only |-> r.quals_only, playoffs_only |-> r.playoffs_only]
          /\ query_result' = IF key.kind = "raise" THEN key
                ELSE Return(team_matches(event.val, key.val, r.round,
                                         r.quals_only, r.playoffs_only))
          /\ event' = Return(SelfAfter(event.val, query'))
    /\ query_count' = query_count + 1
    /\ UNCHANGED <<payload, fvars, wvars, ovars, avars>>

\* a call event.team_awards(team)
TeamAwards ==
    /\ Constructed
    /\ query_count < MaxCalls
    /\ \E team \in QueryTeams :
          LET key == team_format(team, FormatBare) IN
          /\ query' = [method |-> "team_awards", team |-> team]
          /\ query_result' = IF key.kind = "raise" THEN key
                ELSE Return(team_awards(event.val, key.val))
          /\ event' = Return(SelfAfter(event.val, query'))
    /\ query_count' = query_count + 1
    /\ UNCHANGED <<payload, fvars, wvars, ovars, avars>>

\* a call event.team_ranking(team, array)
TeamRanking ==
    /\ Constructed
    /\ query_count < MaxCalls
    /\ \E team \in QueryTeams, array \in BOOLEAN :
          LET key == team_format(team, FormatBare) IN
          /\ query' = [method |-> "team_ranking", team |-> team, array |-> array]
          /\ query_result' = IF key.kind = "raise" THEN key
                ELSE team_ranking(event.val, key.val, array)
          /\ event' = Return(SelfAfter(event.val, query'))
    /\ query_count' = query_count + 1
    /\ UNCHANGED <<payload, fvars, wvars, ovars, avars>>

\* a call event.get_qual_matches()
GetQualMatches ==
    /\ Constructed
    /\ query_count < MaxCalls
    /\ query' = [method |-> "get_qual_matches"]
    /\ query_result' = Return(get_qual_matches(event.val))
    /\ event' = Return(SelfAfter(event.val, query'))
    /\ query_count' = query_count + 1
    /\ UNCHANGED <<payload, fvars, wvars, ovars, avars>>

\* a call event.get_playoff_matches()
GetPlayoffMatches ==
    /\ Constructed
    /\ query_count < MaxCalls
    /\ query' = [method |-> "get_playoff_matches"]
    /\ query_result' = Return(get_playoff_matches(event.val))
    /\ event' = Return(SelfAfter(event.val, query'))
    /\ query_count' = query_count + 1
    /\ UNCHANGED <<payload, fvars, wvars, ovars, avars>>

\* a call stats.match_matrix(event)
MatchMatrix ==
    /\ Constructed
    /\ query_count < MaxCalls
    /\ \E outcome \in MatchMatrixOutcomes(event.val) :
          /\ query' = [method |-> "match_matrix"]
          /\ query_result' = outcome
          /\ event' = Return(SelfAfter(event.val, query'))
    /\ query_count' = query_count + 1
    /\ UNCHANGED <<payload, fvars, wvars, ovars, avars>>

\* a call stats.opr(event, **kwargs)
QueryOpr ==
    /\ Constructed
    /\ query_count < MaxCalls
    /\ \E kwargs \in QueryOprCalls :
       \E outcome \in OprOutcomes(event.val, kwargs) :
          /\ query' = [method |-> "opr", kwargs |-> kwargs]
          /\ query_result' = outcome.result
          /\ event' = Return(SelfAfter(event.val, query'))
    /\ query_count' = query_count + 1
    /\ UNCHANGED <<payload, fvars, wvars, ovars, avars>>


(***************************************************************************)
(* Claims about the accessors (checked under SpecQuery).  They are stated   *)
(* on the constructor's arguments, the constructed event, the last call     *)
(* and what it ended in.                                                    *)
(***************************************************************************)
QueryMade(method) == Constructed /\ query # None /\ query.method = method

QueryReturned(method) == QueryMade(method) /\ query_result.kind = "return"

\* the matches of the event whose key is the event's key, "_" and k
MatchesKeyed(k) ==
    {i \in DOMAIN event.val.matches :
        event.val.matches[i].key = ExpectedKey \o <<"_">> \o k}

\* C12: for every constructed Event, whether its key came from the info block
\* or from a key override, and every string k, get_match(k) returns the match
\* whose key is the event key + "_" + k when there is one, and returns None,
\* without raising, when there is none.
C12_GetMatchFindsOrNone ==
    QueryMade("get_match") =>
        /\ query_result.kind = "return"
        /\ IF MatchesKeyed(query.match_key) = {}
           THEN query_result.val = None
           ELSE \E i \in MatchesKeyed(query.match_key) :
                    query_result.val = event.val.matches[i]

\* the part of C12 the code keeps: events whose key came from the info block
C12_HoldsWithInfoKey ==
    (QueryMade("get_match") /\ payload.key = None) =>
        /\ query_result.kind = "return"
        /\ IF MatchesKeyed(query.match_key) = {}
           THEN query_result.val = None
           ELSE \E i \in MatchesKeyed(query.match_key) :
                    query_result.val = event.val.matches[i]

\* the canonical key of the team of the last call
CanonicalKey == team_format(query.team, FormatFrc).val

\* the colours whose team list holds the key
ColoursOf(key, match) == {c \in Colours : key \in Range(match.alliances[c].teams)}

\* the round the last call of team_matches asks for: playoffs before
\* qualification, every match when neither is asked for
RoundSelects(match) ==
    IF query.round = Playoffs \/ query.playoffs_only THEN match.comp_level # "qm"
    ELSE IF query.round = Qualification \/ query.quals_only THEN match.comp_level = "qm"
    ELSE TRUE

\* the places in the event's match sequence of the matches listing the key
PlacesOf(key) ==
    {i \in DOMAIN event.val.matches : ColoursOf(key, event.val.matches[i]) # {}}

\* C15: for a team the normaliser accepts, team_matches returns, in event
\* order, one entry for exactly each selected match whose red or blue team list
\* holds the team's canonical key; the entry's alliance is the colour whose list
\* holds the team, its score that alliance's score and its opp_score the other
\* alliance's score; a match without the team never appears.
C15_TeamMatchesEntries ==
    QueryReturned("team_matches") =>
        LET entries == query_result.val
            matches == event.val.matches
            places == {i \in PlacesOf(CanonicalKey) : RoundSelects(matches[i])}
        IN  /\ Len(entries) = Cardinality(places)
            /\ \E at \in [DOMAIN entries -> places] :
                  /\ \A i, j \in DOMAIN entries : i < j => at[i] < at[j]
                  /\ \A i \in DOMAIN entries :
                        LET entry == entries[i]
                            match == matches[at[i]]
                        IN  /\ entry.match = match
                            /\ entry.alliance \in ColoursOf(CanonicalKey, match)
                            /\ entry.score = match.alliances[entry.alliance].score
                            /\ entry.opp_score
                                  = match.alliances[OtherColour(entry.alliance)].score
            /\ \A i \in DOMAIN entries :
                  ColoursOf(CanonicalKey, entries[i].match) # {}

\* C15 witness: team 1 was asked for on the event of five matches and got its
\* three matches, the second of them played on blue and lost 5 to 7
C15_Witness ==
    /\ QueryReturned("team_matches")
    /\ query.team = PyInt(1)
    /\ Len(query_result.val) = 3
    /\ query_result.val[2].alliance = "blue"
    /\ query_result.val[2].score = 5
    /\ query_result.val[2].opp_score = 7
    /\ query_result.val[1].alliance = "red"

\* the matches of the entries returned
ReturnedMatches == {query_result.val[i].match : i \in DOMAIN query_result.val}

\* C16: team_matches selects only qualification matches when round is
\* "qualification" or quals_only is true, only playoff matches when round is
\* "playoffs" or playoffs_only is true, the playoff selection taking precedence
\* when both are asked for, and all matches otherwise.
C16_RoundSelection ==
    QueryReturned("team_matches") =>
        LET wants_quals == query.round = Qualification \/ query.quals_only
            wants_playoffs == query.round = Playoffs \/ query.playoffs_only
            mine == {event.val.matches[i] : i \in PlacesOf(CanonicalKey)}
        IN  /\ ReturnedMatches \subseteq mine
            /\ wants_playoffs =>
                  ReturnedMatches = {m \in mine : m.comp_level # "qm"}
            /\ (wants_quals /\ ~wants_playoffs) =>
                  ReturnedMatches = {m \in mine : m.comp_level = "qm"}
            /\ (~wants_quals /\ ~wants_playoffs) => ReturnedMatches = mine

\* C16 witness: qualification and playoffs were both asked for, by the round
\* name and by the flag, and the team's one playoff match came back
C16_Witness ==
    /\ QueryReturned("team_matches")
    /\ query.round = Qualification
    /\ query.playoffs_only
    /\ query.team = PyInt(1)
    /\ Len(query_result.val) = 1
    /\ query_result.val[1].match.comp_level = "f"
    /\ Len(event.val.matches) = 5

\* the number a well-formed team identifier stands for
TeamNumber(t) ==
    IF t.type = "int" THEN t.num
    ELSE IF IsDigitString(t) THEN DigitsValue(t.chars)
    ELSE DigitsValue(SubSeq(t.chars, 4, Len(t.chars)))

\* the ranking rows whose column 1 is the decimal form of the number
RowsOfTeam(n) ==
    {i \in DOMAIN event.val.rankings :
        event.val.rankings[i][2] = PyStr(NatToStr(n))}

First(places) == CHOOSE i \in places : \A j \in places : i <= j

\* C17: team_ranking returns the first ranking row whose column 1 equals the
\* team's number, as the raw row when array is true and otherwise as a mapping
\* from each header of row 0 to the value in the same column of that row; when
\* no row matches, also when the table has no rows at all, it returns None in
\* both modes and does not raise.
C17_TeamRanking ==
    (QueryMade("team_ranking") /\ WellFormedTeam(query.team)
        /\ TeamNumber(query.team) >= 0) =>
        LET rankings == event.val.rankings
            rows == RowsOfTeam(TeamNumber(query.team))
        IN  /\ query_result.kind = "return"
            /\ IF rows = {} THEN query_result.val = None
               ELSE LET row == rankings[First(rows)] IN
                    IF query.array THEN query_result.val = row
                    ELSE /\ DOMAIN query_result.val = Range(rankings[1])
                         /\ \A c \in DOMAIN rankings[1] :
                               query_result.val[rankings[1][c]] = row[c]

\* the part of C17 the code keeps: a table that has its header row
C17_HoldsWithHeaders ==
    (QueryMade("team_ranking") /\ WellFormedTeam(query.team)
        /\ TeamNumber(query.team) >= 0 /\ Len(event.val.rankings) > 0) =>
        LET rankings == event.val.rankings
            rows == RowsOfTeam(TeamNumber(query.team))
        IN  /\ query_result.kind = "return"
            /\ IF rows = {} THEN query_result.val = None
               ELSE LET row == rankings[First(rows)] IN
                    IF query.array THEN query_result.val = row
                    ELSE /\ DOMAIN query_result.val = Range(rankings[1])
                         /\ \A c \in DOMAIN rankings[1] :
                               query_result.val[rankings[1][c]] = row[c]

\* the (award, recipient) places whose recipient is of the team's number
AwardPlaces(n) ==
    UNION { { <<a, r>> : r \in {r \in DOMAIN event.val.awards[a].recipient_list :
                event.val.awards[a].recipient_list[r].team_number = PyInt(n)} } :
            a \in DOMAIN event.val.awards }

\* award order, then recipient order
PlaceBefore(p, q) == p[1] < q[1] \/ (p[1] = q[1] /\ p[2] < q[2])

\* C18: team_awards, for a team given as an integer, a digit string or a
\* prefixed string, returns one entry per (award, recipient) pair whose
\* recipient team_number equals the team's number, in award order then
\* recipient order, each carrying the award, the award's name and that
\* recipient's awardee; it returns an empty list when the team received nothing.
C18_TeamAwards ==
    (QueryMade("team_awards") /\ WellFormedTeam(query.team)) =>
        LET places == AwardPlaces(TeamNumber(query.team))
            awards == event.val.awards
        IN  /\ query_result.kind = "return"
            /\ Len(query_result.val) = Cardinality(places)
            /\ \E at \in [DOMAIN query_result.val -> places] :
                  /\ \A i, j \in DOMAIN query_result.val :
                        i < j => PlaceBefore(at[i], at[j])
                  /\ \A i \in DOMAIN query_result.val :
                        LET award == awards[at[i][1]]
                            entry == query_result.val[i]
                        IN  /\ entry.award = award
                            /\ entry.name = award.name
                            /\ entry.awardee = award.recipient_list[at[i][2]].awardee
            /\ places = {} => query_result.val = <<>>

\* C18 witness: team 3, given as "03", got its three entries, the last two
\* from one award in recipient order
C18_Witness ==
    /\ QueryReturned("team_awards")
    /\ query.team = PyStr(<<"0", "3">>)
    /\ Len(query_result.val) = 3
    /\ query_result.val[1].name = "Winner"
    /\ query_result.val[2].awardee = PyStr(<<"Bo">>)
    /\ query_result.val[3].awardee = PyStr(<<"Di">>)

\* C19: after construction no sequence of calls of get_match, team_matches,
\* team_awards, team_ranking, get_qual_matches, get_playoff_matches,
\* stats.match_matrix and stats.opr, succeeding or failing, changes the event's
\* key, teams, matches, awards or rankings; the match sequence stays in the
\* order fixed at construction.
C19_QueriesLeaveEvent ==
    [][Constructed =>
          /\ event'.val.key = event.val.key
          /\ event'.val.teams = event.val.teams
          /\ event'.val.matches = event.val.matches
          /\ event'.val.awards = event.val.awards
          /\ event'.val.rankings = event.val.rankings]_vars

\* C19 witness: a second call, one that selects playoff matches of a team, was
\* made on an event that still holds all its five matches in sorted order
C19_Witness ==
    /\ QueryReturned("team_matches")
    /\ query_count >= 2
    /\ query.playoffs_only
    /\ Len(query_result.val) = 1
    /\ event.val.matches = SortedByKey(payload.matches)
    /\ Len(event.val.matches) = 5


InitQuery ==
    /\ InitQueryVars
    /\ IdleFormatVars
    /\ IdleWrapVars
    /\ IdleOprVars
    /\ IdleClientVars

NextQuery ==
    \/ EventConstruct
    \/ GetMatch
    \/ TeamMatches
    \/ TeamAwards
    \/ TeamRanking
    \/ GetQualMatches
    \/ GetPlayoffMatches
    \/ MatchMatrix
    \/ QueryOpr

SpecQuery == InitQuery /\ [][NextQuery]_vars


(***************************************************************************)
(* Construction on match lists that vary in level, set number and match     *)
(* number (SpecSort).  Qualification matches are of set 1; the set numbers  *)
(* reach those of a double-elimination bracket.                             *)
(***************************************************************************)
MaxSortMatches == 2

Levels == {"qm", "ef", "qf", "sf", "f"}

SortSetNumbers == {1, 2, 11}

SortMatchNumbers == {1, 2, 101}

SortPool ==
    { MatchModel(level, set, number, Alliance(<<1>>, 10), Alliance(<<2>>, 20)) :
        level \in Levels, set \in SortSetNumbers, number \in SortMatchNumbers }
    \ { MatchModel("qm", set, number, Alliance(<<1>>, 10), Alliance(<<2>>, 20)) :
        set \in SortSetNumbers \ {1}, number \in SortMatchNumbers }

SortPayloads ==
    { [info |-> [key |-> EventKey, name |-> "Test"],
       teams |-> <<TeamModel(1), TeamModel(2)>>,
       matches |-> ms, awards |-> <<>>, rankings |-> <<>>,
       filtered |-> TRUE, key |-> None] :
        ms \in InjectiveSeqs(SortPool, MaxSortMatches) }

\* the place of a level in the order qm, ef, qf, sf, f
LevelRank(level) ==
    CASE level = "qm" -> 0
      [] level = "ef" -> 1
      [] level = "qf" -> 2
      [] level = "sf" -> 3
      [] level = "f" -> 4

\* a comes before b: by level; inside the qualification level by match number;
\* inside a playoff level by set number, then by match number
ComesBefore(a, b) ==
    \/ LevelRank(a.comp_level) < LevelRank(b.comp_level)
    \/ /\ a.comp_level = b.comp_level
       /\ a.comp_level = "qm"
       /\ a.match_number < b.match_number
    \/ /\ a.comp_level = b.comp_level
       /\ a.comp_level # "qm"
       /\ \/ a.set_number < b.set_number
          \/ a.set_number = b.set_number /\ a.match_number < b.match_number

\* C13: for matches of the levels qm, ef, qf, sf, f and arbitrary set and match
\* numbers, Event.matches has all qualification matches first, by match number,
\* then each playoff level as one group in the order ef, qf, sf, f, and inside
\* a playoff level orders by set number first and match number second.
C13_SortedByLevelSetNumber ==
    Constructed =>
        \A i, j \in DOMAIN event.val.matches :
            i < j => ~ComesBefore(event.val.matches[j], event.val.matches[i])

MatchIdentity(match) == <<match.comp_level, match.set_number, match.match_number>>

\* C14: match_sort_key is injective on match identity: two matches of one event
\* that differ in (level, set number, match number) get different sort keys.
C14_SortKeyInjective ==
    Constructed =>
        \A i, j \in DOMAIN event.val.matches :
            MatchIdentity(event.val.matches[i]) # MatchIdentity(event.val.matches[j])
                => match_sort_key(event.val.matches[i])
                       # match_sort_key(event.val.matches[j])

\* the part of C13 and C14 the code keeps: set numbers below 10 and match
\* numbers below 100
SmallNumbers ==
    \A i \in DOMAIN payload.matches :
        payload.matches[i].set_number < 10 /\ payload.matches[i].match_number < 100

C13_HoldsForSmallNumbers ==
    (Constructed /\ SmallNumbers) =>
        \A i, j \in DOMAIN event.val.matches :
            i < j => ~ComesBefore(event.val.matches[j], event.val.matches[i])

C14_HoldsForSmallNumbers ==
    (Constructed /\ SmallNumbers) =>
        \A i, j \in DOMAIN event.val.matches :
            MatchIdentity(event.val.matches[i]) # MatchIdentity(event.val.matches[j])
                => match_sort_key(event.val.matches[i])
                       # match_sort_key(event.val.matches[j])

InitSort ==
    /\ payload \in SortPayloads
    /\ event = None
    /\ IdleFormatVars
    /\ IdleWrapVars
    /\ IdleOprVars
    /\ IdleQueryVars
    /\ IdleClientVars

NextSort == EventConstruct

SpecSort == InitSort /\ [][NextSort]_vars


(***************************************************************************)
(* api.TBAClient (SpecClient).  app_id holds, per client, the value of      *)
(* self.app_id['X-TBA-App-Id']; http_log the calls made so far, each        *)
(* tba_get with the HTTP request it issued, if any; tba_result what the     *)
(* last call ended in.                                                      *)
(***************************************************************************)
MaxClientCalls == 3

\* the module's defaultclient and a client of the caller's
Clients == {"defaultclient", "client"}

AppIdHeader == "X-TBA-App-Id"

\* the empty string TBAClient.__init__ stores
NoKey == <<>>

\* self.session.headers after __init__: updated from app_id before any key is set
SessionHeaders == [h \in {AppIdHeader} |-> NoKey]

\* the headers of a request that lets the session's headers win
RequestHeaders_SessionWins(session_headers, headers) ==
    [h \in DOMAIN session_headers \cup DOMAIN headers |->
        IF h \in DOMAIN session_headers THEN session_headers[h] ELSE headers[h]]

\* session.get(url, headers=headers): the call's headers override the session's
RequestHeaders(session_headers, headers) ==
    [h \in DOMAIN session_headers \cup DOMAIN headers |->
        IF h \in DOMAIN headers THEN headers[h] ELSE session_headers[h]]

ApiUrl(path) == <<"https://www.thebluealliance.com/api/v2/">> \o path

\* name + ':' + description + ':' + version; TypeError when one is not a str
AppId(name, description, version) ==
    IF name.type = "str" /\ description.type = "str" /\ version.type = "str"
    THEN Return(name.chars \o <<":">> \o description.chars \o <<":">> \o version.chars)
    ELSE Raise("TypeError")

\* the arguments of set_api_key: keys of the tests, empty strings, and the
\* missing arguments of the tests' invalid key
KeyArguments ==
    { <<PyStr(<<"WesJordan">>), PyStr(<<"PyTBA-Unit-Test">>), PyStr(<<"1.0">>)>>,
      <<PyStr(<<"PyTBA-Unit-Test">>), PyStr(<<"WesJordan">>), PyStr(<<"1.0">>)>>,
      <<PyStr(<<>>), PyStr(<<>>), PyStr(<<>>)>>,
      <<PyStr(<<"invalid_key">>), None, None>> }

QueryPaths == { <<"team/frc2363">> }

\* the response text parses as JSON, or it does not and None is returned
Responses == { Return(PyStr(<<"json">>)), Return(None) }

InitClientVars ==
    /\ app_id = [c \in Clients |-> NoKey]
    /\ http_log = <<>>
    /\ tba_result = None

\* client.set_api_key(name, description, version)
SetApiKey ==
    /\ Len(http_log) < MaxClientCalls
    /\ \E c \in Clients, args \in KeyArguments :
          LET key == AppId(args[1], args[2], args[3]) IN
          /\ app_id' = IF key.kind = "return" THEN [app_id EXCEPT ![c] = key.val]
                       ELSE app_id
          /\ tba_result' = IF key.kind = "return" THEN Return(None) ELSE key
          /\ http_log' = Append(http_log,
                [call |-> "set_api_key", client |-> c, name |-> args[1],
                 description |-> args[2], version |-> args[3],
                 outcome |-> tba_result'])
    /\ UNCHANGED <<fvars, wvars, evars, ovars, qvars>>

\* client.tba_get(path)
TbaGet ==
    /\ Len(http_log) < MaxClientCalls
    /\ \E c \in Clients, path \in QueryPaths, response \in Responses :
          /\ tba_result' = IF app_id[c] = NoKey THEN Raise("Exception") ELSE response
          /\ http_log' = Append(http_log,
                [call |-> "tba_get", client |-> c, path |-> path,
                 request |-> IF app_id[c] = NoKey THEN None
                             ELSE [url |-> ApiUrl(path),
                                   headers |-> RequestHeaders(SessionHeaders,
                                       [h \in {AppIdHeader} |-> app_id[c]])],
                 outcome |-> tba_result'])
    /\ UNCHANGED <<app_id, fvars, wvars, evars, ovars, qvars>>

\* the calls of set_api_key on the client that returned, before call i
KeysSetBefore(c, i) ==
    {j \in 1..(i - 1) :
        /\ http_log[j].call = "set_api_key"
        /\ http_log[j].client = c
        /\ http_log[j].outcome.kind = "return"}

Latest(places) == CHOOSE j \in places : \A k \in places : k <= j

\* C20: in any sequence of set_api_key and tba_get calls on a TBAClient,
\* tba_get raises without issuing an HTTP request as long as no API key has
\* been set on that client, and every request issued after set_api_key(name,
\* description, version) carries the header X-TBA-App-Id equal to
\* "name:description:version" of the most recent set_api_key call on it.
C20_KeyBeforeRequests ==
    \A i \in DOMAIN http_log :
        http_log[i].call = "tba_get" =>
            LET sets == KeysSetBefore(http_log[i].client, i) IN
            IF sets = {}
            THEN /\ http_log[i].request = None
                 /\ http_log[i].outcome.kind = "raise"
            ELSE LET set == http_log[Latest(sets)] IN
                 /\ http_log[i].request # None
                 /\ http_log[i].request.headers[AppIdHeader]
                       = set.name.chars \o <<":">> \o set.description.chars
                         \o <<":">> \o set.version.chars

\* C20 witness: a client's key was set twice, to different keys, and its
\* request went out after the second
C20_Witness ==
    /\ Len(http_log) >= 3
    /\ http_log[1].call = "set_api_key"
    /\ http_log[2].call = "set_api_key"
    /\ http_log[3].call = "tba_get"
    /\ http_log[1].client = http_log[3].client
    /\ http_log[2].client = http_log[3].client
    /\ http_log[1].name # http_log[2].name
    /\ http_log[2].outcome.kind = "return"
    /\ http_log[1].outcome.kind = "return"
    /\ http_log[3].request # None

InitClient ==
    /\ InitClientVars
    /\ IdleFormatVars
    /\ IdleWrapVars
    /\ IdleEventVars
    /\ IdleOprVars
    /\ IdleQueryVars

NextClient ==
    \/ SetApiKey
    \/ TbaGet

SpecClient == InitClient /\ [][NextClient]_vars

(***************************************************************************)
(* The score matrix of stats.opr (checked under SpecOpr).                  *)
(***************************************************************************)
\* both loops over kwargs ran to the end for every qualification match
ScoresAssembled ==
    /\ OprCalled
    /\ opr_result.result.kind = "raise" => opr_result.result.line \notin 73..99

OtherAlliance(row) == row.match.alliances[IF row.colour = "red" THEN "blue" ELSE "red"]

\* what the extractors of the calls stand for on a row
EvaluatedFor(item, row) ==
    IF item = PyFunction("tower_strength") THEN tower_strength(row.match, row.colour)
    ELSE IF item = AllianceScorePath THEN RawScore(row)
    ELSE IF item = OpponentScorePath THEN OtherAlliance(row).score
    ELSE IF item = TeleopPath THEN row.match.score_breakdown[row.colour].teleopPoints
    ELSE None

\* the score rows are the extractors evaluated on the rows, in their order
ScoreRowsOver(rows, quals, scores, kwargs) ==
    /\ Len(scores) = 2 * Len(quals)
    /\ \A r \in DOMAIN scores :
          /\ rows[r].match = quals[(r + 1) \div 2]
          /\ rows[r].colour = (IF r % 2 = 1 THEN "red" ELSE "blue")
          /\ DOMAIN scores[r] = DOMAIN kwargs
          /\ \A c \in DOMAIN kwargs : scores[r][c] = EvaluatedFor(kwargs[c].item, rows[r])

\* every statistic's values solve the normal equations of its own column
SolveOwnColumn(retained, part, normal, det) ==
    (Len(retained) > 0 /\ det # 0) =>
        \A name \in RequestedNames :
            SolvesNormalEquations(name, retained, part, normal, Abs(det))

SolveOwnColumnOver(retained, part, normal) ==
    SolveOwnColumn(retained, part, normal, Det(normal))

\* C24: the score matrix of opr has exactly 2 x (number of qualification
\* matches) rows in the enumeration of the participation matrix: for the
\* i-th qualification match the red row and then the blue row, each holding
\* every extractor evaluated for that match and colour (a function being
\* called with the match and the colour); and the values returned for a
\* statistic solve the normal equations of the column it was stored in.
C24_ScoreRowsMatchParticipationRows ==
    ScoresAssembled =>
        /\ ScoreRowsOver(QualRows, SelectSeq(event.val.matches, IsQual),
                         opr_result.match_scores, opr_result.kwargs)
        /\ OprReturned =>
              SolveOwnColumnOver(RetainedTeams, Participation, NormalMatrix)

\* C24 witness: the call of the tests returned on ten matches; the function
\* gave the two rows of the first match different values
C24_Witness ==
    /\ OprReturned
    /\ RetainedSystemInvertible
    /\ Requested("boulders", PyFunction("tower_strength"))
    /\ Len(opr_result.match_scores) = 20
    /\ opr_result.match_scores[1][StatisticColumn("boulders")]
       # opr_result.match_scores[2][StatisticColumn("boulders")]
    /\ opr_result.match_scores[1][StatisticColumn("teleop")]
       # opr_result.match_scores[2][StatisticColumn("teleop")]

(***************************************************************************)
(* One entry of a score row on its own (SpecExtract): an extractor and a   *)
(* match are drawn, and the entry is extracted for one colour.  The score  *)
(* breakdowns of the matches may hold entries keyed by the literal tokens  *)
(* and by the colour names.                                                *)
(***************************************************************************)
Entry(key, value) == [key |-> key, value |-> value]

ExtraEntries ==
    { <<>>,
      << Entry("##OPPALLIANCE", 3) >>,
      << Entry("red", 5), Entry("blue", 6) >>,
      << Entry("##OPPALLIANCE", 3), Entry("red", 5), Entry("blue", 6) >> }

\* a qualification match whose breakdowns hold the entries, blue's ten higher
ExtractMatch(score, entries) ==
    LET breakdown(c, shift) ==
            [teleopPoints |-> score + shift, towerEndStrength |-> 8 - shift,
             other |-> [i \in DOMAIN entries |->
                           Entry(entries[i].key, entries[i].value + 10 * shift)]]
    IN  [key |-> MatchKey("qm", 1, 1),
         comp_level |-> "qm", set_number |-> 1, match_number |-> 1,
         alliances |-> [red |-> Alliance(<<1, 2, 3>>, score),
                        blue |-> Alliance(<<4, 5, 6>>, score + 1)],
         score_breakdown |-> [red |-> breakdown("red", 0), blue |-> breakdown("blue", 1)]]

ExtractItems ==
    { PyStr(path) : path \in
        { <<"teleopPoints">>,
          <<"##ALLIANCE">>,
          <<"##OPPALLIANCE">>,
          <<"red">>,
          <<"nosuch">>,
          <<"/", "alliances", "/", "##ALLIANCE", "/", "score">>,
          <<"/", "alliances", "/", "##OPPALLIANCE", "/", "score">>,
          <<"/", "score_breakdown", "/", "##ALLIANCE", "/", "teleopPoints">>,
          <<"/", "score_breakdown", "/", "##OPPALLIANCE", "/", "teleopPoints">>,
          <<"/", "score_breakdown", "/", "##ALLIANCE", "/", "##OPPALLIANCE">>,
          <<"/", "score_breakdown", "/", "##OPPALLIANCE", "/", "##ALLIANCE">>,
          <<"/", "match_number">> } }
    \cup { PyFunction("tower_strength") }

ExtractInputs ==
    { [item |-> item, match |-> ExtractMatch(score, entries)] :
        item \in ExtractItems, score \in {20, 30}, entries \in ExtraEntries }

\* one pass of the body of an inner loop of opr: score.append(...) for the colour
ExtractEntry ==
    /\ opr_kwargs # None
    /\ opr_result = None
    /\ \E colour \in Colours :
          opr_result' = [colour |-> colour,
                         got |-> Extract(opr_kwargs.item, opr_kwargs.match, colour)]
    /\ UNCHANGED <<opr_kwargs, evars, fvars, wvars, qvars, avars>>

Extracted == opr_result # None

IsPath(item) == item.type = "str" /\ Len(item.chars) > 0

IsRootPath(item) == IsPath(item) /\ item.chars[1] = "/"

IsBreakdownPath(item) == IsPath(item) /\ item.chars[1] # "/"

\* the same value returned, or the same exception raised
SameOutcome(a, b) ==
    /\ a.kind = b.kind
    /\ a.kind = "return" => a.val = b.val
    /\ a.kind = "raise" => a.exc = b.exc

\* the lookup the claim describes for the row of the colour
ResolvedAsDescribed(item, match, colour) ==
    IF IsRootPath(item)
    THEN DpathGet(MatchLeaves(match),
                  Tail(StrReplace(StrReplace(item.chars, <<"##ALLIANCE">>, <<colour>>),
                                  <<"##OPPALLIANCE">>, <<OtherColour(colour)>>)), 0)
    ELSE DpathGet(BreakdownLeaves(match.score_breakdown[colour]),
                  StrReplace(item.chars, <<"##ALLIANCE">>, <<colour>>), 0)

\* C25: path extractors are resolved the same way for the red row and the
\* blue row: a path with a leading slash from the match root, the
\* this-alliance token replaced by the row's colour and the
\* opposing-alliance token by the other colour; a path without a leading
\* slash inside the row's own score breakdown with only the this-alliance
\* token replaced, the opposing-alliance token left as it is for both colours.
C25_PathsResolvedAlikeForBothColours ==
    (Extracted /\ IsPath(opr_kwargs.item)) =>
        SameOutcome(opr_result.got,
                    ResolvedAsDescribed(opr_kwargs.item, opr_kwargs.match, opr_result.colour))

HasOpposingToken(item) == \E i \in DOMAIN item.chars : item.chars[i] = "##OPPALLIANCE"

\* C25 holds for the red row, for paths from the match root, and for paths
\* without the opposing-alliance token
C25_HoldsButForBlueOpposingToken ==
    ( /\ Extracted
      /\ IsPath(opr_kwargs.item)
      /\ \/ opr_result.colour = "red"
         \/ IsRootPath(opr_kwargs.item)
         \/ ~HasOpposingToken(opr_kwargs.item) ) =>
        SameOutcome(opr_result.got,
                    ResolvedAsDescribed(opr_kwargs.item, opr_kwargs.match, opr_result.colour))

\* the blue row of the path '##OPPALLIANCE' took the breakdown's entry 'red'
C25_BlueReadsRedEntry ==
    /\ Extracted
    /\ opr_kwargs.item = PyStr(<<"##OPPALLIANCE">>)
    /\ opr_result.colour = "blue"
    /\ opr_result.got = Return(15)
    /\ BreakdownLeaves(opr_kwargs.match.score_breakdown.blue)[<< <<"##OPPALLIANCE">> >>] = 13

InitExtract ==
    /\ opr_kwargs \in ExtractInputs
    /\ opr_result = None
    /\ IdleFormatVars
    /\ IdleWrapVars
    /\ IdleEventVars
    /\ IdleQueryVars
    /\ IdleClientVars

NextExtract == ExtractEntry

SpecExtract == InitExtract /\ [][NextExtract]_vars


(***************************************************************************)
(* team_matches of the client (pytba/api.py) and of the legacy module      *)
(* (bluealliance.py), run on the same responses (SpecSeason).  The team    *)
(* attended two events; the request for an event's matches fails or        *)
(* answers with a list of matches: with the team on red, on blue or on     *)
(* neither alliance, without a score breakdown, or without the             *)
(* 'alliances' entry.                                                      *)
(***************************************************************************)
MaxEventMatches == 2

SeasonEvents == << <<"2016", "first">>, <<"2016", "second">> >>

SeasonTeam == TeamKey(1)

MatchShapes == {"red", "blue", "red_unscored", "neither", "malformed"}

\* the i-th match of the answer for the e-th event
SeasonMatch(e, i, shape) ==
    LET key == SeasonEvents[e] \o <<"_", "qm">> \o NatToStr(i)
        ours == <<1, 2, 3>>
        red == Alliance(IF shape \in {"red", "red_unscored"} THEN ours ELSE <<4, 5, 6>>,
                        100 * e + 10 * i + 1)
        blue == Alliance(IF shape = "blue" THEN ours ELSE <<7, 8, 9>>,
                         100 * e + 10 * i + 2)
    IN  IF shape = "malformed" THEN [key |-> key, comp_level |-> "qm"]
        ELSE [key |-> key, comp_level |-> "qm",
              alliances |-> [red |-> red, blue |-> blue],
              score_breakdown |->
                  IF shape = "red_unscored" THEN None
                  ELSE [red |-> Breakdown(red.score, 8), blue |-> Breakdown(blue.score, 7)]]

\* what tba_get answers for the matches of the e-th event
EventAnswer(e, fetch, shapes) ==
    [key |-> SeasonEvents[e], fetch |-> fetch,
     matches |-> [i \in DOMAIN shapes |-> SeasonMatch(e, i, shapes[i])]]

EventAnswers(e) ==
    { EventAnswer(e, "fails", <<>>) }
    \cup { EventAnswer(e, "ok", shapes) :
             shapes \in UNION { [1..n -> MatchShapes] : n \in 0..MaxEventMatches } }

SeasonPayloads ==
    { [team |-> SeasonTeam, answers |-> <<first, second>>] :
        first \in EventAnswers(1), second \in EventAnswers(2) }

\* team_color and oppo_color before their first assignment
UnboundColours == [team |-> "unbound", oppo |-> "unbound"]

\* the match after lines 99-107: the entries 'team' and 'opponent' added
Annotated(match, colours) ==
    [key |-> match.key, comp_level |-> match.comp_level,
     alliances |-> [red |-> match.alliances.red, blue |-> match.alliances.blue,
                    team |-> match.alliances[colours.team],
                    opponent |-> match.alliances[colours.oppo]],
     score_breakdown |->
         IF match.score_breakdown # None
         THEN [red |-> match.score_breakdown.red, blue |-> match.score_breakdown.blue,
               team |-> match.score_breakdown[colours.team],
               opponent |-> match.score_breakdown[colours.oppo]]
         ELSE None]

\* the inner loop of TBAClient.team_matches; st holds the list matches and
\* the two colour variables, which live on from match to match
RECURSIVE ClientMatches(_, _, _)
ClientMatches(team, ev_matches, st) ==
    IF Len(ev_matches) = 0 THEN Return(st)
    ELSE LET match == Head(ev_matches) IN
         IF "alliances" \notin DOMAIN match THEN Raise("KeyError")
         ELSE LET colours ==
                      IF InList(team, match.alliances.red.teams)
                      THEN [team |-> "red", oppo |-> "blue"]
                      ELSE IF InList(team, match.alliances.blue.teams)
                      THEN [team |-> "blue", oppo |-> "red"]
                      ELSE st.colours
              IN  IF colours = UnboundColours THEN Raise("UnboundLocalError")
                  ELSE ClientMatches(team, Tail(ev_matches),
                                     [matches |-> Append(st.matches, Annotated(match, colours)),
                                      colours |-> colours])

\* the loop over the events; the except clause prints and raises again
RECURSIVE ClientEvents(_, _, _)
ClientEvents(team, answers, st) ==
    IF Len(answers) = 0 THEN Return(st.matches)
    ELSE IF Head(answers).fetch = "fails" THEN Raise("ConnectionError")
    ELSE LET done == ClientMatches(team, Head(answers).matches, st) IN
         IF done.kind = "raise" THEN done
         ELSE ClientEvents(team, Tail(answers), done.val)

\* TBAClient.team_matches(team, year) on the team key team_wrap(pos=1) passes
TBAClient_team_matches(team, answers) ==
    ClientEvents(team, answers, [matches |-> <<>>, colours |-> UnboundColours])

\* the entries the legacy inner loop appends until a match raises
RECURSIVE LegacyEntries(_, _)
LegacyEntries(team, ev_matches) ==
    IF Len(ev_matches) = 0 THEN <<>>
    ELSE LET match == Head(ev_matches) IN
         IF "alliances" \notin DOMAIN match THEN <<>>
         ELSE (IF InList(team, match.alliances.red.teams)
               THEN <<MatchEntry(match, "red")>>
               ELSE IF InList(team, match.alliances.blue.teams)
               THEN <<MatchEntry(match, "blue")>>
               ELSE <<>>)
              \o LegacyEntries(team, Tail(ev_matches))

\* an event that adds its entries only if none of its matches raises
LegacyEvent_AllOrNothing(team, answer, matches) ==
    IF answer.fetch = "fails" THEN matches
    ELSE IF \E i \in DOMAIN answer.matches : "alliances" \notin DOMAIN answer.matches[i]
    THEN matches
    ELSE matches \o LegacyEntries(team, answer.matches)

\* one pass of the legacy loop over the events: the except clause prints
\* the event's key and the loop goes on
LegacyEvent(team, answer, matches) ==
    IF answer.fetch = "fails" THEN matches
    ELSE matches \o LegacyEntries(team, answer.matches)

RECURSIVE LegacyEvents(_, _, _)
LegacyEvents(team, answers, matches) ==
    IF Len(answers) = 0 THEN matches
    ELSE LegacyEvents(team, Tail(answers), LegacyEvent(team, Head(answers), matches))

\* bluealliance.team_matches(team, year)
legacy_team_matches(team, answers) == Return(LegacyEvents(team, answers, <<>>))

\* a call client.team_matches(team, year)
ClientTeamMatches ==
    /\ payload # None
    /\ query = None
    /\ query' = [method |-> "TBAClient.team_matches"]
    /\ query_result' = TBAClient_team_matches(payload.team, payload.answers)
    /\ query_count' = query_count + 1
    /\ UNCHANGED <<evars, fvars, wvars, ovars, avars>>

\* a call bluealliance.team_matches(team, year)
LegacyTeamMatches ==
    /\ payload # None
    /\ query = None
    /\ query' = [method |-> "bluealliance.team_matches"]
    /\ query_result' = legacy_team_matches(payload.team, payload.answers)
    /\ query_count' = query_count + 1
    /\ UNCHANGED <<evars, fvars, wvars, ovars, avars>>

ClientCalled == query # None /\ query.method = "TBAClient.team_matches"

LegacyCalled == query # None /\ query.method = "bluealliance.team_matches"

\* the colour under which the match lists the team
ListedAs(match, colour) == payload.team \in Range(match.alliances[colour].teams)

\* the entries 'team' and 'opponent' are those of the colour
AnnotatedAs(match, colour) ==
    /\ match.alliances.team = match.alliances[colour]
    /\ match.alliances.opponent = match.alliances[OtherColour(colour)]
    /\ match.score_breakdown # None =>
          /\ match.score_breakdown.team = match.score_breakdown[colour]
          /\ match.score_breakdown.opponent = match.score_breakdown[OtherColour(colour)]

\* C26: for every match TBAClient.team_matches returns, alliances['team'] is
\* the alliance of that match that lists the team and alliances['opponent']
\* the other one, and likewise for the score breakdown where there is one;
\* the colour found for one match is never carried over to a later match.
C26_TeamAllianceOfSameMatch ==
    (ClientCalled /\ query_result.kind = "return") =>
        \A i \in DOMAIN query_result.val :
            \E colour \in Colours :
                /\ ListedAs(query_result.val[i], colour)
                /\ AnnotatedAs(query_result.val[i], colour)

\* every match of every answer lists the team
TeamInEveryMatch ==
    \A e \in DOMAIN payload.answers :
        \A i \in DOMAIN payload.answers[e].matches :
            "alliances" \in DOMAIN payload.answers[e].matches[i] =>
                \E colour \in Colours : ListedAs(payload.answers[e].matches[i], colour)

\* C26 holds for answers whose matches all list the team
C26_HoldsWhenTeamListed ==
    (ClientCalled /\ query_result.kind = "return" /\ TeamInEveryMatch) =>
        \A i \in DOMAIN query_result.val :
            \E colour \in Colours :
                /\ ListedAs(query_result.val[i], colour)
                /\ AnnotatedAs(query_result.val[i], colour)

\* a match of the second event, listing the team on neither alliance, came
\* back with the colour of the last match of the first event
C26_ColourCarriedOver ==
    /\ ClientCalled /\ query_result.kind = "return"
    /\ Len(query_result.val) = 2
    /\ ListedAs(query_result.val[1], "blue")
    /\ query_result.val[1].key = SeasonEvents[1] \o <<"_", "qm", "1">>
    /\ query_result.val[2].key = SeasonEvents[2] \o <<"_", "qm", "1">>
    /\ ~ListedAs(query_result.val[2], "red") /\ ~ListedAs(query_result.val[2], "blue")
    /\ AnnotatedAs(query_result.val[2], "blue")

\* the request for the event's matches fails
FetchFails(answer) == answer.fetch = "fails"

\* the matches of the event that raise when the loop reaches them
Raising(answer) ==
    { i \in DOMAIN answer.matches : "alliances" \notin DOMAIN answer.matches[i] }

EventFails(answer) == FetchFails(answer) \/ Raising(answer) # {}

\* the entries of the matches that list the team, in their order
EntriesOf(ev_matches) ==
    LET colour(i) == IF ListedAs(ev_matches[i], "red") THEN "red" ELSE "blue"
        listing == { i \in DOMAIN ev_matches :
                        \E c \in Colours : ListedAs(ev_matches[i], c) }
        nth(n) == CHOOSE i \in listing : Cardinality({ k \in listing : k < i }) = n - 1
    IN  [n \in 1..Cardinality(listing) |-> MatchEntry(ev_matches[nth(n)], colour(nth(n)))]

\* the matches of the answer the loop got through
Processed(answer) ==
    IF FetchFails(answer) THEN <<>>
    ELSE IF Raising(answer) = {} THEN answer.matches
    ELSE SubSeq(answer.matches, 1,
                (CHOOSE i \in Raising(answer) : \A k \in Raising(answer) : i <= k) - 1)

\* C27 as stated: when fetching or processing one event's matches fails, the
\* client version raises the error again and returns no list, whereas the
\* legacy version swallows the error, skips that event and returns the
\* matches collected from the remaining events.
C27_LegacySkipsFailedEvent ==
    /\ (ClientCalled /\ \E e \in DOMAIN payload.answers : EventFails(payload.answers[e]))
          => query_result.kind = "raise"
    /\ LegacyCalled =>
          query_result
          = Return(Flatten([e \in DOMAIN payload.answers |->
                               IF EventFails(payload.answers[e]) THEN <<>>
                               ELSE EntriesOf(payload.answers[e].matches)]))

\* C27 amended: the legacy version swallows the error, skips the rest of
\* that event, keeping the entries it collected from the event before the
\* failure, and returns them with the matches collected from the remaining
\* events; the client version raises the error again and returns no list.
C27_LegacySkipsRestOfEvent ==
    /\ (ClientCalled /\ \E e \in DOMAIN payload.answers : EventFails(payload.answers[e]))
          => query_result.kind = "raise"
    /\ LegacyCalled =>
          query_result
          = Return(Flatten([e \in DOMAIN payload.answers |->
                               EntriesOf(Processed(payload.answers[e]))]))

\* C27 witness: the second match of the first event raised; the legacy call
\* returned the entry of that event's first match and those of the second event
C27_Witness ==
    /\ LegacyCalled
    /\ ~FetchFails(payload.answers[1])
    /\ Raising(payload.answers[1]) = {2}
    /\ ~EventFails(payload.answers[2])
    /\ Len(query_result.val) = 3
    /\ query_result.val[1].match = payload.answers[1].matches[1]
    /\ query_result.val[3].match = payload.answers[2].matches[2]

InitSeason ==
    /\ payload \in SeasonPayloads
    /\ event = None
    /\ IdleFormatVars
    /\ IdleWrapVars
    /\ IdleOprVars
    /\ IdleQueryVars
    /\ IdleClientVars

NextSeason == ClientTeamMatches \/ LegacyTeamMatches

SpecSeason == InitSeason /\ [][NextSeason]_vars



(***************************************************************************)
(* stats.match_matrix on its own (SpecMatrix): the call leaves match_list,  *)
(* the rows before the column filter, next to what it returned.  The        *)
(* events are played two against two or three against three by the teams    *)
(* of a roster of seven; in "trios_guest" team 7 stands in for team 3 in    *)
(* the first match, otherwise team 7 is a no-show.                          *)
(***************************************************************************)
MatrixRoster == 7

MatrixSchedules == {"pairs", "trios", "trios_guest"}

MatrixTeams(schedule, i) ==
    IF schedule = "pairs" THEN Pairings[((i - 1) % Len(Pairings)) + 1]
    ELSE IF schedule = "trios_guest" /\ i = 1 THEN [red |-> <<1, 2, 7>>, blue |-> <<4, 5, 6>>]
    ELSE Trios[((i - 1) % Len(Trios)) + 1]

MatrixPayload(gen) ==
    [info |-> [key |-> EventKey, name |-> "Test"],
     teams |-> [i \in 1..MatrixRoster |->
                   TeamModel(IF gen.ascending THEN i ELSE MatrixRoster + 1 - i)],
     matches |-> [j \in 1..gen.playoffs |-> PlayoffMatch(j)]
                 \o [i \in 1..gen.quals |->
                        MatchModel("qm", 1, gen.quals + 1 - i,
                            Alliance(MatrixTeams(gen.schedule, gen.quals + 1 - i).red, 10),
                            Alliance(MatrixTeams(gen.schedule, gen.quals + 1 - i).blue, 20))],
     awards |-> <<>>, rankings |-> <<>>,
     filtered |-> gen.filtered, key |-> None, gen |-> gen]

MatrixPayloads ==
    { MatrixPayload([schedule |-> schedule, quals |-> quals, playoffs |-> playoffs,
                     filtered |-> filtered, ascending |-> ascending]) :
        schedule \in MatrixSchedules, quals \in QualCounts, playoffs \in 0..MaxPlayoff,
        filtered \in BOOLEAN, ascending \in BOOLEAN }

\* a call match_matrix(event) on the constructed event
BuildMatrix ==
    /\ Constructed
    /\ query = None
    /\ \E outcome \in MatchMatrixOutcomes(event.val) :
          /\ query' = [method |-> "match_matrix"]
          /\ query_result' = [match_list |-> MatchList(event.val), result |-> outcome]
    /\ query_count' = query_count + 1
    /\ UNCHANGED <<evars, fvars, wvars, ovars, avars>>

MatrixBuilt == Constructed /\ query # None

MatrixReturned == MatrixBuilt /\ query_result.result.kind = "return"

\* 1 if the key is in the list of team keys, else 0
Listing(key, teams) == IF key \in Range(teams) THEN 1 ELSE 0

\* C21: before column filtering match_matrix builds exactly 2 x (number of
\* qualification matches) rows: for the i-th qualification match in event
\* order the red row and then the blue row, whose entry in the column of the
\* j-th event team is 1 if the team's key is in that alliance's team list and 0
\* otherwise; playoff matches contribute no rows.
C21_RowsPerQualMatch ==
    MatrixBuilt =>
        LET rows == query_result.match_list
            teams == event.val.teams
            quals == SelectSeq(event.val.matches, IsQual)
        IN  /\ Len(rows) = 2 * Len(quals)
            /\ \A r \in DOMAIN rows : DOMAIN rows[r] = DOMAIN teams
            /\ \A i \in DOMAIN quals : \A j \in DOMAIN teams :
                  /\ rows[2 * i - 1][j]
                        = Listing(teams[j].key, quals[i].alliances.red.teams)
                  /\ rows[2 * i][j]
                        = Listing(teams[j].key, quals[i].alliances.blue.teams)

\* C21 witness: an event with a playoff match and nine qualification matches
\* gave eighteen rows
C21_Witness ==
    /\ MatrixBuilt
    /\ Len(query_result.match_list) = 18
    /\ Len(event.val.matches) = 10
    /\ event.val.matches[10].comp_level = "sf"


\* the event was built with no-show filtering from matches of three distinct
\* teams against three
ThreeTeamAlliances ==
    /\ payload.filtered
    /\ payload.gen.schedule \in {"trios", "trios_guest"}

\* the alliance of the r-th row
RowAlliance(r) == QualRows[r].match.alliances[QualRows[r].colour]

CrowdedColumns ==
    { j \in DOMAIN event.val.teams :
        Cardinality({ r \in DOMAIN query_result.match_list :
                        query_result.match_list[r][j] # 0 }) > 8 }

\* the c-th of a set of columns, counted from the left
NthColumn(columns, c) ==
    CHOOSE j \in columns : Cardinality({ k \in columns : k < j }) = c - 1

InitMatrix ==
    /\ payload \in MatrixPayloads
    /\ event = None
    /\ IdleFormatVars
    /\ IdleWrapVars
    /\ IdleOprVars
    /\ IdleQueryVars
    /\ IdleClientVars

NextMatrix ==
    \/ EventConstruct
    \/ BuildMatrix

SpecMatrix == InitMatrix /\ [][NextMatrix]_vars



(***************************************************************************)
(* The score matrix of the legacy Event.opr (bluealliance.py) next to that *)
(* of stats.opr (SpecScores): both loops run on the same constructed       *)
(* event and the same keyword arguments.  The two constructors are the     *)
(* same code.                                                              *)
(***************************************************************************)
\* lambda m, a: match['alliances'][a]['score'], match being the loop's variable
LegacyTotal == PyFunction("<lambda>")

\* kwargs['total'] = lambda ...
LegacyWithTotal(kwargs) == SetItem(kwargs, "total", LegacyTotal)

\* the dict of a score breakdown read with a key
BreakdownItem(bd, item, line) ==
    IF item.type = "str" /\ <<item.chars>> \in DOMAIN BreakdownLeaves(bd)
    THEN Return(BreakdownLeaves(bd)[<<item.chars>>])
    ELSE RaiseAt("KeyError", line)

\* one entry of a legacy score row: both loops read the red breakdown
LegacyExtract(item, match, colour) ==
    IF item.type = "function"
    THEN IF item = LegacyTotal THEN Return(match.alliances[colour].score)
         ELSE CallFunction(item, match, colour)
    ELSE BreakdownItem(match.score_breakdown.red, item,
                       IF colour = "red" THEN 223 ELSE 231)

RECURSIVE LegacyScoreRow(_, _, _, _)
LegacyScoreRow(kwargs, match, colour, score) ==
    IF Len(kwargs) = 0 THEN Return(score)
    ELSE LET got == LegacyExtract(Head(kwargs).item, match, colour) IN
         IF got.kind = "raise" THEN got
         ELSE LegacyScoreRow(Tail(kwargs), match, colour, Append(score, got.val))

\* match_scores of the legacy opr
RECURSIVE LegacyMatchScores(_, _, _)
LegacyMatchScores(kwargs, quals, match_scores) ==
    IF Len(quals) = 0 THEN Return(match_scores)
    ELSE LET red == LegacyScoreRow(kwargs, Head(quals), "red", <<>>) IN
         IF red.kind = "raise" THEN red
         ELSE LET blue == LegacyScoreRow(kwargs, Head(quals), "blue", <<>>) IN
              IF blue.kind = "raise" THEN blue
              ELSE LegacyMatchScores(kwargs, Tail(quals),
                                     match_scores \o <<red.val, blue.val>>)

TowerPath == PyStr(<<"towerEndStrength">>)

\* calls both versions accept: breakdown keys, and the function of the docstrings
ScoreCalls ==
    { <<>>,
      KeywordArgs(<<"teleop">>, <<TeleopPath>>),
      KeywordArgs(<<"tower">>, <<TowerPath>>),
      KeywordArgs(<<"teleop", "boulders">>, <<TeleopPath, PyFunction("tower_strength")>>),
      KeywordArgs(<<"missing">>, <<PyStr(<<"nosuch">>)>>) }

\* event.opr(**kwargs) and stats.opr(event, **kwargs) up to the score matrix
AssembleScores ==
    /\ Constructed
    /\ opr_result = None
    /\ \E kwargs \in ScoreCalls :
          /\ opr_kwargs' = kwargs
          /\ opr_result' =
                [legacy |-> LegacyMatchScores(LegacyWithTotal(kwargs),
                                              QualMatches(event.val), <<>>),
                 stats |-> MatchScores(WithTotal(kwargs), QualMatches(event.val), <<>>)]
    /\ UNCHANGED <<evars, fvars, wvars, qvars, avars>>

ScoresBuilt == Constructed /\ opr_result # None

\* the columns of the call's statistics given as a breakdown key that exists
KeyColumns ==
    { c \in DOMAIN opr_kwargs :
        opr_kwargs[c].item \in {TeleopPath, TowerPath} /\ opr_kwargs[c].key # "total" }

ResolvableCall == \A c \in DOMAIN opr_kwargs : opr_kwargs[c].item # PyStr(<<"nosuch">>)

TotalColumn == Len(opr_kwargs) + 1

\* the value of the breakdown key of the column for the row's alliance
OwnBreakdownValue(c, row) ==
    IF opr_kwargs[c].item = TeleopPath
    THEN row.match.score_breakdown[row.colour].teleopPoints
    ELSE row.match.score_breakdown[row.colour].towerEndStrength

\* C28: for the same event and a statistic given as a plain score-breakdown
\* key, the legacy Event.opr and stats.opr assemble the same score matrix:
\* in both the red row holds the red alliance's breakdown value and the blue
\* row the blue alliance's, and the 'total' column holds each row's own
\* alliance score.
C28_SameScoreMatrix ==
    (ScoresBuilt /\ ResolvableCall) =>
        /\ opr_result.legacy.kind = "return"
        /\ opr_result.stats.kind = "return"
        /\ opr_result.legacy.val = opr_result.stats.val
        /\ \A r \in DOMAIN QualRows :
              /\ opr_result.legacy.val[r][TotalColumn] = RawScore(QualRows[r])
              /\ \A c \in KeyColumns :
                    opr_result.legacy.val[r][c] = OwnBreakdownValue(c, QualRows[r])

\* C28 holds for the red rows, the 'total' column and the function columns,
\* and the matrix of stats.opr is as described
C28_HoldsButForBlueKeyEntries ==
    (ScoresBuilt /\ ResolvableCall) =>
        /\ opr_result.legacy.kind = "return"
        /\ opr_result.stats.kind = "return"
        /\ DOMAIN opr_result.legacy.val = DOMAIN opr_result.stats.val
        /\ \A r \in DOMAIN QualRows :
              /\ opr_result.legacy.val[r][TotalColumn] = RawScore(QualRows[r])
              /\ opr_result.stats.val[r][TotalColumn] = RawScore(QualRows[r])
              /\ \A c \in DOMAIN opr_kwargs :
                    \/ opr_result.legacy.val[r][c] = opr_result.stats.val[r][c]
                    \/ (QualRows[r].colour = "blue" /\ c \in KeyColumns)
              /\ \A c \in KeyColumns :
                    opr_result.stats.val[r][c] = OwnBreakdownValue(c, QualRows[r])

\* the legacy blue row of the first match holds red's teleop points
C28_BlueRowHoldsRedValue ==
    /\ ScoresBuilt
    /\ opr_kwargs = KeywordArgs(<<"teleop">>, <<TeleopPath>>)
    /\ Len(QualRows) = 2 * MaxQual
    /\ opr_result.legacy.val[2][1] = QualRows[1].match.score_breakdown.red.teleopPoints
    /\ opr_result.stats.val[2][1] = QualRows[2].match.score_breakdown.blue.teleopPoints
    /\ opr_result.legacy.val[2][1] # opr_result.stats.val[2][1]

InitScores ==
    /\ payload \in MatrixPayloads
    /\ event = None
    /\ IdleFormatVars
    /\ IdleWrapVars
    /\ IdleOprVars
    /\ IdleQueryVars
    /\ IdleClientVars

NextScores == EventConstruct \/ AssembleScores

SpecScores == InitScores /\ [][NextScores]_vars

=============================================================================
